---- MODULE Spec2Model ----
(***************************************************************************)
(* The persistent cache layer of the security assessor: CacheManager      *)
(* (gcs_cache.py) with its local-directory and GCS-bucket backends, and   *)
(* the cache code of EntityResolver (entity_resolver.py): key derivation, *)
(* the staleness check and the direct record write.                       *)
(*                                                                         *)
(* Time is counted in clock readings.  A Python value is a record        *)
(* [t, s, n]: its type tag, its text and its number.  A stored blob is     *)
(* absent, unparsable bytes, or the JSON object json.dump wrote.           *)
(***************************************************************************)
EXTENDS Integers, Sequences, FiniteSets, TLC

\* Hours the wall clock may advance while the manager is exercised.
MaxClock == 1

VARIABLES
    GCS_AVAILABLE,  \* module flag: the google.cloud.storage import succeeded
    ctor,           \* the arguments __init__ was called with, and whether storage.Client() works
    use_gcs,        \* self.use_gcs
    bucket_name,    \* self.bucket_name
    bucket,         \* self.bucket: NONE or the handle of the named bucket
    dirExists,      \* the directory local_cache_dir exists
    localFiles,     \* key -> content of local_cache_dir/<key>.json
    gcsBlobs,       \* key -> content of the blob <key>.json in the bucket
    now,            \* datetime.now(), as a clock reading
    last,           \* the most recent call: its arguments, what it returned or raised
    keyIn,          \* the input_text handed to _get_cache_key
    keyOut,         \* the key it returned, NotCalled before the call
    race,           \* two threads writing one cache file: the file and each writer's progress
    probe           \* a call of _find_high_signal_sources: its progress, the URLs fetched, its sources

cfgVars == <<GCS_AVAILABLE, ctor, use_gcs, bucket_name, bucket>>
keyVars == <<keyIn, keyOut>>
vars == <<cfgVars, dirExists, localFiles, gcsBlobs, now, last, keyVars, race, probe>>

----------------------------------------------------------------------------
(* Python values and documents *)

NONE == "<None>"

PyStr(x)   == [t |-> "str",   s |-> x, n |-> 0]
PyList(x)  == [t |-> "list",  s |-> x, n |-> 0]
PyTuple(x) == [t |-> "tuple", s |-> x, n |-> 0]
PySet(x)   == [t |-> "set",   s |-> x, n |-> 0]
PyDict(x)  == [t |-> "dict",  s |-> x, n |-> 0]

\* datetime.isoformat() of the time h: a str holding ISO-8601 text.
isoformat(h) == [t |-> "str", s |-> "iso8601", n |-> h]

\* The documents callers hand to the cache: string-keyed dicts.
DocPlain   == ("name" :> PyStr("x"))
DocStamped == ("name" :> PyStr("x") @@ "cached_at" :> isoformat(-1))
DocList    == ("name" :> PyList("1,2"))
DocTuple   == ("name" :> PyTuple("1,2"))
DocSet     == ("name" :> PySet("1,2"))
Docs == {DocPlain, DocStamped, DocList, DocTuple, DocSet}

\* Cache keys: a key is the sequence of its text segments; ".json" is that text.
Key1 == <<"k1">>
Key2 == <<"k", ".json", "x">>
Keys == {Key1, Key2}
NoKey == <<>>
NotCalled == <<"<not called>">>

\* Blob names in the order list_blobs() and the directory are walked.
KeyOrder == <<Key2, Key1>>

----------------------------------------------------------------------------
(* json.dump / json.load *)

\* json can encode str, list, tuple (as an array), dict and numbers; a set raises TypeError.
Serializable(d) == \A f \in DOMAIN d : d[f].t \in {"str", "list", "tuple", "dict", "int"}

json_value(v) ==
    [j |-> CASE v.t = "str" -> "string"
             [] v.t \in {"list", "tuple"} -> "array"
             [] v.t = "dict" -> "object"
             [] OTHER -> "number",
     s |-> v.s, n |-> v.n]

\* The JSON object text written for a serializable dict.
json_dumps(d) == [f \in DOMAIN d |-> json_value(d[f])]

py_value(jv) ==
    [t |-> CASE jv.j = "string" -> "str"
             [] jv.j = "array" -> "list"
             [] jv.j = "object" -> "dict"
             [] OTHER -> "int",
     s |-> jv.s, n |-> jv.n]

\* The dict parsed from a JSON object text.
json_loads(obj) == [f \in DOMAIN obj |-> py_value(obj[f])]

Absent == [kind |-> "absent"]
Garbage == [kind |-> "garbage"]
JsonBlob(obj) == [kind |-> "json", obj |-> obj]

----------------------------------------------------------------------------
(* What a call returns *)

None == [kind |-> "None"]
Dict(d) == [kind |-> "dict", d |-> d]
Bool(b) == [kind |-> "bool", b |-> b]
KeyList(S) == [kind |-> "list", keys |-> S]
Count(i) == [kind |-> "int", n |-> i]
Raise(e) == [kind |-> "raise", exc |-> e]

----------------------------------------------------------------------------
(* CacheManager.__init__ *)

\* The arguments of __init__ and, when it gets that far, what storage.Client() does
\* ("ok" or "raises"; "not called" otherwise).
ClientCalled(avail, req, name) == req /\ avail /\ name \notin {NONE, ""}

CtorArgs(avail) ==
    {a \in [use_gcs : BOOLEAN, bucket_name : {NONE, "", "b"},
            client : {"ok", "raises", "not called"}] :
        (a.client = "not called") <=> ~ClientCalled(avail, a.use_gcs, a.bucket_name)}

\* __init__ without the handler that clears use_gcs when storage.Client() raises.
InitUseGcsKeptOnClientError(avail, a) ==
    a.use_gcs /\ avail /\ a.bucket_name \notin {NONE, ""}

\* __init__ without the fallback for a missing bucket name: use_gcs stays as asked.
InitUseGcsWithoutBucketName(avail, a) ==
    IF a.use_gcs /\ avail
    THEN IF a.bucket_name \in {NONE, ""}
         THEN TRUE
         ELSE a.client = "ok"
    ELSE FALSE

\* self.use_gcs when __init__ returns.
InitUseGcs(avail, a) ==
    IF a.use_gcs /\ avail
    THEN IF a.bucket_name \in {NONE, ""}
         THEN FALSE
         ELSE a.client = "ok"
    ELSE FALSE

\* self.bucket when __init__ returns.
InitBucket(avail, a) ==
    IF a.use_gcs /\ avail /\ a.bucket_name \notin {NONE, ""} /\ a.client = "ok"
    THEN a.bucket_name
    ELSE NONE

\* The manager's fields as __init__ leaves them.
Constructed(avail, a) ==
    /\ GCS_AVAILABLE = avail
    /\ ctor = a
    /\ use_gcs = InitUseGcs(avail, a)
    /\ bucket_name = a.bucket_name
    /\ bucket = InitBucket(avail, a)

\* The threads that may write one cache file at the same time.
Writers == {"A", "B"}

\* No thread is inside a write.
NoRace ==
    [file |-> <<>>, doc |-> [w \in Writers |-> <<>>], pc |-> [w \in Writers |-> "idle"],
     pos |-> [w \in Writers |-> 0], lastw |-> "none"]

\* No call of _find_high_signal_sources has been made.
NoProbe ==
    [pc |-> "idle", site |-> "none", type |-> 0, url |-> 0, log |-> <<>>,
     resp |-> [content |-> FALSE, len |-> 0, at404 |-> 0],
     sources |-> <<>>, given |-> FALSE, quality |-> [quality |-> "none"]]

\* The directory __init__ made sure of, an empty bucket, clock at 0, no call yet.
EmptyStores ==
    /\ race = NoRace
    /\ probe = NoProbe
    /\ dirExists = TRUE
    /\ localFiles = [k \in Keys |-> Absent]
    /\ gcsBlobs = [k \in Keys |-> Absent]
    /\ now = 0
    /\ last = [op |-> "__init__", key |-> NoKey, arg |-> None, prior |-> None,
               fault |-> "none", at |-> 0, backend |-> "none", ret |-> None]

Init ==
    /\ \E avail \in BOOLEAN : \E a \in CtorArgs(avail) : Constructed(avail, a)
    /\ EmptyStores
    /\ keyIn = <<>>
    /\ keyOut = NotCalled

----------------------------------------------------------------------------
(* GCS operations *)

_get_from_gcs(blobs, k, fault) ==
    IF fault # "none" THEN None
    ELSE IF blobs[k] = Absent THEN None
    ELSE IF blobs[k] = Garbage THEN None
    ELSE Dict(json_loads(blobs[k].obj))

\* [blobs, ret]: json.dumps runs before the upload, so a failure uploads nothing.
_set_to_gcs(blobs, k, data, fault) ==
    IF ~Serializable(data) \/ fault # "none"
    THEN [blobs |-> blobs, ret |-> Bool(FALSE)]
    ELSE [blobs |-> [blobs EXCEPT ![k] = JsonBlob(json_dumps(data))], ret |-> Bool(TRUE)]

----------------------------------------------------------------------------
(* Local operations *)

\* _get_from_local without the try around json.load: the decode error propagates.
GetFromLocalNoTry(files, k, fault) ==
    IF fault = "stat" THEN Raise("OSError")
    ELSE IF files[k] = Absent THEN None
    ELSE IF fault = "read" THEN None
    ELSE IF files[k] = Garbage THEN Raise("JSONDecodeError")
    ELSE Dict(json_loads(files[k].obj))

\* exists() is called outside the try block: an OSError from stat propagates.
_get_from_local(files, k, fault) ==
    IF fault = "stat" THEN Raise("OSError")
    ELSE IF files[k] = Absent THEN None
    ELSE IF fault = "read" THEN None
    ELSE IF files[k] = Garbage THEN None
    ELSE Dict(json_loads(files[k].obj))

\* _set_to_local opening the file with 'a': a second document appended to an
\* existing one leaves text that no longer parses.
SetToLocalAppending(files, dirOk, k, data, fault) ==
    IF ~dirOk \/ fault = "open"
    THEN [files |-> files, ret |-> Bool(FALSE)]
    ELSE IF ~Serializable(data) \/ fault = "write"
    THEN [files |-> [files EXCEPT ![k] = Garbage], ret |-> Bool(FALSE)]
    ELSE [files |-> [files EXCEPT ![k] = IF files[k] = Absent THEN JsonBlob(json_dumps(data))
                                         ELSE Garbage],
          ret |-> Bool(TRUE)]

\* [files, ret]: open(..., 'w') truncates the file before json.dump writes into it.
_set_to_local(files, dirOk, k, data, fault) ==
    IF ~dirOk \/ fault = "open"
    THEN [files |-> files, ret |-> Bool(FALSE)]
    ELSE IF ~Serializable(data) \/ fault = "write"
    THEN [files |-> [files EXCEPT ![k] = Garbage], ret |-> Bool(FALSE)]
    ELSE [files |-> [files EXCEPT ![k] = JsonBlob(json_dumps(data))], ret |-> Bool(TRUE)]

----------------------------------------------------------------------------
(* Blob and file names *)

BlobName(k) == Append(k, ".json")
endswith_json(name) == Len(name) > 0 /\ name[Len(name)] = ".json"

\* Path.stem: the file name without its last suffix.
stem(name) == SubSeq(name, 1, Len(name) - 1)

\* str.replace('.json', ''): every occurrence of the text is removed.
replace_json(name) == SelectSeq(name, LAMBDA seg : seg # ".json")

Present(store) == {k \in Keys : store[k] # Absent}

----------------------------------------------------------------------------
(* GCS operations, continued *)

_list_gcs_keys(blobs, fault) ==
    IF fault # "none" THEN KeyList({})
    ELSE KeyList({replace_json(BlobName(k)) : k \in {x \in Present(blobs) : endswith_json(BlobName(x))}})

\* _delete_from_gcs if blob.delete() did not raise for a missing blob.
DeleteFromGcsMissingOk(blobs, k, fault) ==
    IF fault # "none"
    THEN [blobs |-> blobs, ret |-> Bool(FALSE)]
    ELSE [blobs |-> [blobs EXCEPT ![k] = Absent], ret |-> Bool(TRUE)]

\* [blobs, ret]: blob.delete() raises NotFound for a missing blob.
_delete_from_gcs(blobs, k, fault) ==
    IF fault # "none" \/ blobs[k] = Absent
    THEN [blobs |-> blobs, ret |-> Bool(FALSE)]
    ELSE [blobs |-> [blobs EXCEPT ![k] = Absent], ret |-> Bool(TRUE)]

\* The loop of _clear_gcs from the i-th listed blob on: the first blob.delete()
\* that raises leaves the loop and the handler returns 0.
RECURSIVE ClearGcsLoop(_, _, _, _)
ClearGcsLoop(blobs, i, count, failing) ==
    IF i > Len(KeyOrder) THEN [blobs |-> blobs, ret |-> Count(count)]
    ELSE LET k == KeyOrder[i] IN
         IF blobs[k] = Absent THEN ClearGcsLoop(blobs, i + 1, count, failing)
         ELSE IF k \in failing THEN [blobs |-> blobs, ret |-> Count(0)]
         ELSE ClearGcsLoop([blobs EXCEPT ![k] = Absent], i + 1, count + 1, failing)

_clear_gcs(blobs, fault, failing) ==
    IF fault # "none" THEN [blobs |-> blobs, ret |-> Count(0)]
    ELSE ClearGcsLoop(blobs, 1, 0, failing)

----------------------------------------------------------------------------
(* Local operations, continued *)

_list_local_keys(files, fault) ==
    IF fault # "none" THEN KeyList({})
    ELSE KeyList({stem(BlobName(k)) : k \in Present(files)})

\* _delete_from_local unlinking every file the glob '*.json' finds.
DeleteFromLocalByGlob(files, k, fault) ==
    IF fault # "none" \/ files[k] = Absent
    THEN [files |-> files, ret |-> Bool(FALSE)]
    ELSE [files |-> [x \in Keys |-> Absent], ret |-> Bool(TRUE)]

_delete_from_local(files, k, fault) ==
    IF fault # "none" \/ files[k] = Absent
    THEN [files |-> files, ret |-> Bool(FALSE)]
    ELSE [files |-> [files EXCEPT ![k] = Absent], ret |-> Bool(TRUE)]

\* _clear_local unlinking only the files that parse.
ClearLocalParsableOnly(files, fault, failing) ==
    IF fault # "none" THEN [files |-> files, ret |-> Count(0)]
    ELSE LET gone == {k \in Present(files) \ failing : files[k].kind = "json"}
         IN  [files |-> [k \in Keys |-> IF k \in gone THEN Absent ELSE files[k]],
              ret |-> Count(Cardinality(gone))]

\* A file whose unlink raises is skipped; the others are deleted and counted.
_clear_local(files, fault, failing) ==
    IF fault # "none" THEN [files |-> files, ret |-> Count(0)]
    ELSE LET gone == Present(files) \ failing
         IN  [files |-> [k \in Keys |-> IF k \in gone THEN Absent ELSE files[k]],
              ret |-> Count(Cardinality(gone))]

----------------------------------------------------------------------------
(* CacheManager: the public operations *)

\* A dispatch that goes to the local directory once a call has failed.
DispatchLocalAfterFailure == IF use_gcs /\ last.fault = "none" THEN "gcs" ELSE "local"

\* if self.use_gcs: ... else: ...
Dispatch == IF use_gcs THEN "gcs" ELSE "local"

Call(op, k, arg, prior, fault, at, ret) ==
    [op |-> op, key |-> k, arg |-> arg, prior |-> prior, fault |-> fault,
     at |-> at, backend |-> Dispatch, ret |-> ret]

\* Stamp as dict.setdefault would do it: a cached_at the caller supplied is kept.
StampKeepsCaller(data, h) ==
    [f \in DOMAIN data \cup {"cached_at"} |->
        IF f \in DOMAIN data THEN data[f] ELSE isoformat(h)]

\* Stamp left out: the document is stored as the caller gave it.
StampLeftOut(data, h) == data

\* data['cached_at'] = datetime.now().isoformat()
Stamp(data, h) ==
    [f \in DOMAIN data \cup {"cached_at"} |->
        IF f = "cached_at" THEN isoformat(h) ELSE data[f]]

\* The document of the successful set(k, .) that immediately precedes this call, if any.
PriorSet(k) ==
    IF last.op = "set" /\ last.key = k /\ last.ret = Bool(TRUE)
    THEN [kind |-> "set", d |-> last.arg.d, had |-> last.prior.b]
    ELSE None

\* What the fault-free delete(k) that immediately precedes this call returned, if any.
PriorDelete(k) ==
    IF last.op = "delete" /\ last.key = k /\ last.fault = "none"
    THEN last.ret
    ELSE None

\* The call on k that immediately precedes a get(k): a successful set or a delete.
PriorCall(k) ==
    IF PriorSet(k) # None THEN PriorSet(k)
    ELSE IF PriorDelete(k) # None THEN [kind |-> "delete", first |-> PriorDelete(k)]
    ELSE None

get(k) ==
    \E fault \in (IF Dispatch = "gcs" THEN {"none", "transport"} ELSE {"none", "stat", "read"}) :
        /\ fault = "read" => localFiles[k] # Absent
        /\ last' = Call("get", k, None, PriorCall(k), fault, 0,
                        IF Dispatch = "gcs" THEN _get_from_gcs(gcsBlobs, k, fault)
                        ELSE _get_from_local(localFiles, k, fault))
        /\ UNCHANGED <<cfgVars, keyVars, race, probe, dirExists, localFiles, gcsBlobs, now>>

set(k, d) ==
    \E fault \in (IF Dispatch = "gcs" THEN {"none", "transport"} ELSE {"none", "open", "write"}) :
        LET data == Stamp(d, now)
            g == _set_to_gcs(gcsBlobs, k, data, fault)
            l == _set_to_local(localFiles, dirExists, k, data, fault)
            had == IF Dispatch = "gcs" THEN gcsBlobs[k] ELSE localFiles[k]
        IN  /\ gcsBlobs' = IF Dispatch = "gcs" THEN g.blobs ELSE gcsBlobs
            /\ localFiles' = IF Dispatch = "gcs" THEN localFiles ELSE l.files
            /\ last' = Call("set", k, Dict(d), Bool(had.kind = "json"), fault, now,
                            IF Dispatch = "gcs" THEN g.ret ELSE l.ret)
            /\ UNCHANGED <<cfgVars, keyVars, race, probe, dirExists, now>>

\* The clear_all that immediately precedes this call and met no failure, if any.
PriorClear ==
    IF last.op = "clear_all" /\ last.fault = "none" /\ last.arg = KeyList({})
    THEN [kind |-> "clear", n |-> last.ret.n]
    ELSE None

list_keys ==
    \E fault \in {"none", "list"} :
        /\ last' = Call("list_keys", NoKey, None, PriorClear, fault, 0,
                        IF Dispatch = "gcs" THEN _list_gcs_keys(gcsBlobs, fault)
                        ELSE _list_local_keys(localFiles, fault))
        /\ UNCHANGED <<cfgVars, keyVars, race, probe, dirExists, localFiles, gcsBlobs, now>>

delete(k) ==
    \E fault \in {"none", "io"} :
        LET g == _delete_from_gcs(gcsBlobs, k, fault)
            l == _delete_from_local(localFiles, k, fault)
            had == IF Dispatch = "gcs" THEN gcsBlobs[k] ELSE localFiles[k]
        IN  /\ gcsBlobs' = IF Dispatch = "gcs" THEN g.blobs ELSE gcsBlobs
            /\ localFiles' = IF Dispatch = "gcs" THEN localFiles ELSE l.files
            /\ last' = Call("delete", k, None,
                            [kind |-> "delete", had |-> had # Absent, first |-> PriorDelete(k)],
                            fault, 0,
                            IF Dispatch = "gcs" THEN g.ret ELSE l.ret)
            /\ UNCHANGED <<cfgVars, keyVars, race, probe, dirExists, now>>

clear_all ==
    \E fault \in {"none", "list"} :
      \E failing \in SUBSET Present(IF Dispatch = "gcs" THEN gcsBlobs ELSE localFiles) :
        LET g == _clear_gcs(gcsBlobs, fault, failing)
            l == _clear_local(localFiles, fault, failing)
        IN  /\ fault = "list" => failing = {}
            /\ gcsBlobs' = IF Dispatch = "gcs" THEN g.blobs ELSE gcsBlobs
            /\ localFiles' = IF Dispatch = "gcs" THEN localFiles ELSE l.files
            /\ last' = Call("clear_all", NoKey, KeyList(failing),
                            Count(Cardinality(Present(IF Dispatch = "gcs" THEN gcsBlobs
                                                      ELSE localFiles))),
                            fault, 0,
                            IF Dispatch = "gcs" THEN g.ret ELSE l.ret)
            /\ UNCHANGED <<cfgVars, keyVars, race, probe, dirExists, now>>

StorageInfo ==
    [kind |-> "info",
     storage_type |-> IF use_gcs THEN "gcs" ELSE "local",
     bucket_name |-> IF use_gcs THEN bucket_name ELSE NONE,
     gcs_available |-> GCS_AVAILABLE]

get_storage_info ==
    /\ last' = Call("get_storage_info", NoKey, None, None, "none", 0, StorageInfo)
    /\ UNCHANGED <<cfgVars, keyVars, race, probe, dirExists, localFiles, gcsBlobs, now>>

----------------------------------------------------------------------------
(* EntityResolver._save_to_cache: the orchestrator's own record write *)

\* The files after the write; an exception is printed and swallowed.
SaveFiles(files, dirOk, k, data, fault) ==
    IF ~dirOk \/ fault = "open" THEN files
    ELSE IF ~Serializable(data) \/ fault = "write" THEN [files EXCEPT ![k] = Garbage]
    ELSE [files EXCEPT ![k] = JsonBlob(json_dumps(data))]

_save_to_cache(k, d) ==
    \E fault \in {"none", "open", "write"} :
        /\ localFiles' = SaveFiles(localFiles, dirExists, k, Stamp(d, now), fault)
        /\ last' = [Call("_save_to_cache", k, None, None, "none", 0, None)
                        EXCEPT !.backend = "local"]
        /\ UNCHANGED <<cfgVars, keyVars, race, probe, dirExists, gcsBlobs, now>>

----------------------------------------------------------------------------
(* The environment *)

\* The clock moves on.
Advance(limit) ==
    /\ now < limit
    /\ now' = now + 1
    /\ UNCHANGED <<cfgVars, keyVars, race, probe, dirExists, localFiles, gcsBlobs, last>>

Tick == Advance(MaxClock)

\* Invalid bytes are written directly to <key>.json in the store the manager uses.
ExternalCorrupt(k) ==
    /\ IF use_gcs
       THEN gcsBlobs' = [gcsBlobs EXCEPT ![k] = Garbage] /\ UNCHANGED localFiles
       ELSE dirExists /\ localFiles' = [localFiles EXCEPT ![k] = Garbage] /\ UNCHANGED gcsBlobs
    /\ last' = [Call("<external write>", k, None, None, "none", 0, None) EXCEPT !.backend = "none"]
    /\ UNCHANGED <<cfgVars, keyVars, race, probe, dirExists, now>>

\* The cache directory is removed after the manager was constructed.
RemoveDir ==
    /\ dirExists
    /\ dirExists' = FALSE
    /\ localFiles' = [k \in Keys |-> Absent]
    /\ last' = [Call("<external rmdir>", NoKey, None, None, "none", 0, None) EXCEPT !.backend = "none"]
    /\ UNCHANGED <<cfgVars, keyVars, race, probe, gcsBlobs, now>>

Next ==
    \/ \E k \in Keys : get(k)
    \/ \E k \in Keys, d \in Docs : set(k, d)
    \/ list_keys
    \/ \E k \in Keys : delete(k)
    \/ clear_all
    \/ get_storage_info
    \/ Tick
    \/ \E k \in Keys : ExternalCorrupt(k)
    \/ RemoveDir

Spec == Init /\ [][Next]_vars

\* Every write the program makes to the cache: the manager's set and the
\* resolver's own record write, on the directory they share by default.
NextWrites ==
    \/ \E k \in Keys, d \in Docs : set(k, d)
    \/ \E k \in Keys, d \in Docs : _save_to_cache(k, d)
    \/ Tick

SpecWrites == Init /\ [][NextWrites]_vars

----------------------------------------------------------------------------
(* EntityResolver._get_cache_key *)

\* Longest input_text tried.
MaxLen == 3

\* A text is the sequence of its characters; "eszett" is U+00DF.
InputChars == {"a", "A", "eszett", " "}

RECURSIVE Texts(_)
Texts(n) ==
    IF n = 0 THEN {<<>>}
    ELSE Texts(n - 1) \cup {Append(x, c) : x \in {y \in Texts(n - 1) : Len(y) = n - 1}, c \in InputChars}

\* str.lower(), character by character.
LowerChar(c) == CASE c = "A" -> "a" [] c = "S" -> "s" [] OTHER -> c
str_lower(x) == [i \in 1..Len(x) |-> LowerChar(x[i])]

\* str.upper(): U+00DF has no single upper-case character and becomes "SS".
UpperChar(c) ==
    CASE c = "a" -> <<"A">> [] c = "s" -> <<"S">> [] c = "eszett" -> <<"S", "S">> [] OTHER -> <<c>>

RECURSIVE str_upper(_)
str_upper(x) == IF x = <<>> THEN <<>> ELSE UpperChar(Head(x)) \o str_upper(Tail(x))

\* str.strip(): leading and trailing whitespace removed.
RECURSIVE str_lstrip(_)
str_lstrip(x) == IF x # <<>> /\ Head(x) = " " THEN str_lstrip(Tail(x)) ELSE x

RECURSIVE str_rstrip(_)
str_rstrip(x) ==
    IF x # <<>> /\ x[Len(x)] = " " THEN str_rstrip(SubSeq(x, 1, Len(x) - 1)) ELSE x

str_strip(x) == str_rstrip(str_lstrip(x))

\* str.encode(): the UTF-8 bytes.
Utf8(c) ==
    CASE c = "a" -> <<97>> [] c = "A" -> <<65>> [] c = "s" -> <<115>> [] c = "S" -> <<83>>
      [] c = " " -> <<32>> [] c = "eszett" -> <<195, 159>>

RECURSIVE encode(_)
encode(x) == IF x = <<>> THEN <<>> ELSE Utf8(Head(x)) \o encode(Tail(x))

\* hashlib.sha256, tabulated: <<message, digest>> for the byte strings that inputs
\* of up to MaxLen + 1 characters, their upper-casings and their paddings with
\* blanks lower-case and strip to (and, up to MaxLen, lower-case to).
Sha256Digests == {
    <<<<>>, <<227, 176, 196, 66, 152, 252, 28, 20, 154, 251, 244, 200, 153, 111, 185, 36, 39, 174, 65, 228, 100, 155, 147, 76, 164, 149, 153, 27, 120, 82, 184, 85>>>>,
    <<<<32>>, <<54, 169, 231, 241, 201, 91, 130, 255, 185, 151, 67, 224, 197, 196, 206, 149, 216, 60, 154, 67, 10, 172, 89, 248, 78, 243, 203, 250, 182, 20, 80, 104>>>>,
    <<<<97>>, <<202, 151, 129, 18, 202, 27, 189, 202, 250, 194, 49, 179, 154, 35, 220, 77, 167, 134, 239, 248, 20, 124, 78, 114, 185, 128, 119, 133, 175, 238, 72, 187>>>>,
    <<<<32, 32>>, <<108, 23, 159, 33, 230, 246, 43, 98, 144, 85, 216, 171, 64, 244, 84, 237, 2, 228, 139, 104, 86, 57, 19, 71, 59, 133, 125, 54, 56, 226, 59, 40>>>>,
    <<<<32, 97>>, <<125, 229, 152, 179, 255, 138, 153, 99, 142, 31, 155, 244, 146, 96, 186, 160, 217, 142, 6, 157, 222, 50, 209, 242, 225, 83, 173, 181, 206, 71, 130, 66>>>>,
    <<<<97, 32>>, <<101, 131, 220, 214, 5, 111, 211, 42, 173, 208, 210, 208, 190, 146, 13, 233, 159, 111, 240, 139, 128, 6, 94, 75, 145, 66, 170, 164, 22, 147, 145, 203>>>>,
    <<<<97, 97>>, <<150, 27, 109, 211, 237, 227, 203, 142, 203, 170, 203, 214, 141, 224, 64, 205, 120, 235, 46, 213, 136, 145, 48, 204, 235, 76, 73, 38, 142, 164, 213, 6>>>>,
    <<<<115, 115>>, <<163, 31, 233, 101, 111, 200, 211, 164, 89, 230, 35, 220, 130, 4, 230, 208, 38, 143, 141, 245, 109, 115, 77, 172, 60, 163, 38, 46, 219, 93, 184, 131>>>>,
    <<<<195, 159>>, <<205, 58, 126, 146, 169, 17, 67, 7, 5, 94, 74, 5, 131, 172, 214, 84, 158, 195, 187, 109, 124, 16, 236, 198, 206, 17, 174, 61, 118, 179, 215, 219>>>>,
    <<<<32, 32, 32>>, <<10, 173, 125, 167, 125, 46, 213, 156, 57, 108, 153, 167, 78, 73, 243, 164, 82, 77, 205, 188, 181, 22, 50, 81, 177, 67, 61, 100, 2, 71, 174, 180>>>>,
    <<<<32, 32, 97>>, <<140, 72, 10, 140, 140, 85, 166, 145, 142, 57, 122, 198, 177, 34, 207, 178, 230, 114, 219, 247, 229, 23, 48, 129, 18, 49, 140, 108, 229, 176, 25, 197>>>>,
    <<<<32, 97, 32>>, <<203, 247, 243, 0, 4, 243, 102, 124, 176, 147, 179, 199, 181, 81, 105, 169, 14, 63, 0, 68, 246, 234, 63, 249, 61, 63, 117, 66, 122, 114, 227, 119>>>>,
    <<<<32, 97, 97>>, <<50, 50, 7, 26, 186, 186, 188, 78, 207, 196, 251, 184, 89, 131, 57, 165, 172, 96, 83, 141, 171, 50, 94, 194, 231, 66, 57, 8, 34, 139, 163, 230>>>>,
    <<<<32, 115, 115>>, <<78, 202, 246, 42, 212, 66, 216, 155, 237, 27, 14, 36, 248, 32, 25, 171, 98, 173, 171, 240, 18, 43, 62, 82, 89, 210, 20, 248, 85, 225, 40, 83>>>>,
    <<<<32, 195, 159>>, <<135, 122, 3, 244, 160, 253, 159, 99, 146, 174, 236, 18, 13, 16, 83, 58, 89, 228, 228, 190, 95, 248, 41, 35, 136, 17, 111, 180, 96, 51, 8, 51>>>>,
    <<<<97, 32, 32>>, <<184, 161, 210, 154, 103, 97, 226, 212, 116, 89, 28, 5, 117, 149, 247, 138, 25, 249, 15, 144, 4, 176, 110, 152, 149, 197, 102, 118, 189, 130, 125, 31>>>>,
    <<<<97, 32, 97>>, <<61, 95, 214, 177, 205, 228, 141, 239, 102, 199, 135, 8, 67, 24, 8, 185, 226, 171, 177, 54, 49, 64, 163, 201, 245, 100, 165, 84, 241, 238, 150, 33>>>>,
    <<<<97, 97, 32>>, <<140, 251, 33, 44, 50, 117, 178, 181, 150, 180, 246, 28, 96, 87, 176, 117, 153, 223, 95, 245, 195, 62, 216, 193, 170, 205, 224, 126, 255, 38, 199, 237>>>>,
    <<<<97, 97, 97>>, <<152, 52, 135, 109, 207, 176, 92, 177, 103, 165, 194, 73, 83, 235, 165, 140, 74, 200, 155, 26, 223, 87, 242, 143, 47, 157, 9, 175, 16, 126, 232, 240>>>>,
    <<<<97, 115, 115>>, <<32, 98, 248, 0, 147, 6, 102, 51, 135, 107, 84, 34, 18, 196, 150, 80, 26, 94, 121, 82, 60, 196, 234, 155, 40, 102, 125, 255, 6, 90, 253, 143>>>>,
    <<<<97, 195, 159>>, <<224, 197, 147, 8, 83, 149, 173, 32, 247, 18, 66, 207, 83, 143, 186, 136, 145, 24, 212, 161, 19, 74, 165, 225, 7, 29, 70, 167, 245, 102, 136, 156>>>>,
    <<<<115, 115, 32>>, <<19, 29, 168, 122, 89, 114, 88, 79, 26, 153, 243, 84, 232, 53, 167, 31, 241, 216, 116, 95, 229, 122, 209, 162, 167, 1, 210, 120, 38, 252, 185, 106>>>>,
    <<<<115, 115, 97>>, <<71, 8, 50, 228, 158, 192, 65, 211, 180, 202, 70, 91, 163, 54, 205, 228, 235, 226, 8, 5, 158, 49, 64, 117, 67, 124, 140, 236, 66, 206, 103, 18>>>>,
    <<<<195, 159, 32>>, <<32, 37, 192, 253, 13, 244, 62, 246, 12, 224, 107, 125, 158, 249, 115, 120, 223, 199, 169, 133, 181, 18, 53, 19, 103, 113, 203, 128, 235, 114, 171, 23>>>>,
    <<<<195, 159, 97>>, <<180, 81, 62, 166, 34, 204, 59, 57, 92, 222, 122, 226, 224, 46, 170, 180, 227, 255, 37, 222, 89, 179, 144, 100, 46, 242, 188, 117, 211, 240, 232, 233>>>>,
    <<<<32, 32, 32, 32>>, <<26, 15, 86, 77, 220, 96, 57, 69, 123, 47, 178, 107, 61, 106, 49, 108, 21, 235, 162, 10, 136, 100, 73, 132, 124, 50, 16, 195, 88, 33, 166, 147>>>>,
    <<<<32, 32, 97, 32>>, <<241, 249, 205, 134, 160, 149, 30, 135, 13, 24, 30, 187, 243, 42, 155, 212, 135, 193, 124, 2, 224, 144, 214, 64, 12, 45, 249, 108, 53, 129, 1, 233>>>>,
    <<<<32, 32, 115, 115>>, <<113, 252, 234, 51, 166, 118, 95, 226, 41, 126, 55, 210, 157, 19, 111, 164, 90, 58, 0, 172, 138, 34, 98, 66, 147, 235, 253, 73, 140, 142, 214, 249>>>>,
    <<<<32, 32, 195, 159>>, <<220, 201, 82, 108, 50, 134, 137, 222, 78, 66, 226, 51, 110, 51, 147, 143, 151, 191, 203, 248, 48, 170, 204, 43, 166, 218, 198, 181, 191, 248, 217, 5>>>>,
    <<<<32, 97, 32, 32>>, <<238, 45, 120, 91, 231, 199, 170, 151, 66, 214, 120, 63, 254, 126, 174, 131, 35, 247, 34, 80, 216, 131, 39, 29, 126, 118, 191, 230, 51, 177, 183, 32>>>>,
    <<<<32, 97, 97, 32>>, <<29, 65, 137, 41, 121, 158, 169, 176, 177, 23, 142, 171, 64, 81, 209, 118, 86, 163, 57, 0, 204, 167, 244, 57, 178, 156, 151, 85, 174, 61, 64, 55>>>>,
    <<<<32, 97, 115, 115>>, <<97, 108, 184, 152, 208, 48, 186, 16, 90, 124, 255, 189, 205, 156, 105, 201, 16, 101, 132, 183, 220, 198, 57, 221, 205, 240, 159, 111, 216, 50, 186, 124>>>>,
    <<<<32, 97, 195, 159>>, <<249, 241, 14, 62, 43, 172, 251, 130, 252, 237, 84, 198, 153, 106, 78, 227, 117, 69, 64, 253, 215, 248, 151, 141, 114, 140, 160, 83, 246, 109, 31, 167>>>>,
    <<<<32, 115, 115, 32>>, <<112, 81, 13, 215, 44, 87, 224, 97, 245, 202, 159, 229, 158, 226, 153, 152, 184, 238, 177, 128, 239, 165, 166, 207, 22, 89, 24, 156, 69, 78, 199, 59>>>>,
    <<<<32, 115, 115, 97>>, <<89, 218, 34, 219, 17, 21, 200, 226, 163, 254, 31, 184, 242, 221, 227, 203, 149, 131, 211, 2, 133, 231, 72, 244, 78, 86, 48, 231, 78, 180, 51, 254>>>>,
    <<<<32, 195, 159, 32>>, <<116, 167, 7, 203, 66, 56, 49, 243, 79, 22, 150, 134, 161, 126, 189, 112, 123, 233, 147, 19, 68, 76, 77, 235, 225, 230, 57, 185, 165, 188, 20, 47>>>>,
    <<<<32, 195, 159, 97>>, <<243, 208, 169, 253, 211, 12, 26, 183, 204, 0, 70, 142, 139, 28, 185, 181, 78, 200, 142, 178, 21, 71, 17, 60, 166, 115, 195, 199, 202, 64, 110, 75>>>>,
    <<<<97, 32, 32, 97>>, <<107, 6, 165, 234, 48, 97, 233, 125, 94, 233, 115, 108, 252, 145, 204, 176, 162, 136, 93, 74, 82, 222, 183, 58, 14, 188, 220, 204, 209, 130, 24, 68>>>>,
    <<<<97, 32, 97, 97>>, <<220, 125, 129, 11, 227, 70, 129, 55, 70, 48, 245, 224, 234, 190, 139, 142, 98, 214, 47, 173, 149, 80, 81, 209, 20, 236, 41, 98, 187, 8, 135, 35>>>>,
    <<<<97, 32, 115, 115>>, <<8, 7, 243, 35, 235, 232, 192, 157, 249, 124, 248, 72, 190, 143, 175, 85, 253, 165, 53, 101, 133, 13, 154, 255, 25, 64, 248, 6, 3, 70, 250, 59>>>>,
    <<<<97, 32, 195, 159>>, <<166, 40, 243, 169, 8, 245, 121, 214, 95, 14, 78, 25, 16, 5, 45, 52, 122, 21, 72, 226, 73, 19, 72, 157, 51, 115, 12, 157, 190, 218, 12, 86>>>>,
    <<<<97, 97, 32, 97>>, <<107, 241, 242, 13, 171, 171, 203, 131, 243, 183, 108, 212, 122, 66, 215, 182, 227, 127, 147, 49, 55, 7, 105, 167, 200, 42, 250, 157, 158, 24, 170, 29>>>>,
    <<<<97, 97, 97, 97>>, <<97, 190, 85, 168, 226, 246, 180, 225, 114, 51, 139, 221, 241, 132, 214, 219, 238, 41, 201, 136, 83, 224, 160, 72, 94, 206, 231, 242, 123, 154, 240, 180>>>>,
    <<<<97, 97, 115, 115>>, <<239, 24, 185, 10, 236, 22, 108, 178, 69, 211, 22, 245, 72, 157, 9, 250, 200, 195, 237, 197, 132, 150, 9, 92, 55, 91, 89, 152, 157, 111, 171, 193>>>>,
    <<<<97, 97, 195, 159>>, <<28, 164, 174, 19, 42, 31, 41, 148, 219, 40, 70, 131, 212, 47, 44, 96, 189, 186, 104, 166, 153, 1, 162, 156, 135, 99, 222, 67, 143, 115, 200, 80>>>>,
    <<<<97, 115, 115, 32>>, <<103, 28, 230, 233, 225, 25, 233, 211, 218, 123, 173, 150, 98, 204, 197, 86, 122, 77, 89, 67, 101, 148, 153, 135, 124, 141, 182, 96, 190, 140, 162, 232>>>>,
    <<<<97, 115, 115, 97>>, <<184, 167, 34, 85, 174, 223, 58, 1, 203, 74, 236, 227, 2, 40, 60, 233, 239, 93, 245, 195, 98, 144, 169, 63, 50, 74, 179, 10, 247, 92, 59, 232>>>>,
    <<<<97, 195, 159, 32>>, <<12, 142, 121, 141, 182, 148, 63, 173, 236, 151, 237, 222, 212, 19, 165, 13, 9, 241, 115, 93, 31, 129, 181, 133, 122, 252, 255, 33, 77, 43, 72, 199>>>>,
    <<<<97, 195, 159, 97>>, <<54, 127, 14, 64, 56, 247, 138, 76, 136, 178, 111, 112, 204, 187, 56, 94, 37, 60, 62, 149, 127, 217, 194, 228, 56, 100, 11, 118, 59, 47, 95, 72>>>>,
    <<<<115, 115, 32, 32>>, <<200, 153, 55, 82, 60, 169, 136, 28, 199, 113, 235, 180, 17, 210, 82, 132, 201, 99, 91, 228, 153, 179, 170, 8, 183, 92, 110, 140, 137, 21, 220, 42>>>>,
    <<<<115, 115, 32, 97>>, <<82, 154, 71, 212, 135, 120, 16, 117, 228, 61, 236, 78, 185, 95, 213, 191, 117, 252, 159, 59, 231, 72, 183, 254, 199, 227, 170, 105, 252, 91, 229, 173>>>>,
    <<<<115, 115, 97, 32>>, <<53, 250, 146, 79, 48, 132, 232, 231, 56, 39, 58, 114, 83, 228, 74, 55, 215, 217, 199, 47, 45, 88, 151, 190, 214, 26, 146, 0, 166, 156, 172, 202>>>>,
    <<<<115, 115, 97, 97>>, <<54, 78, 72, 237, 108, 53, 89, 95, 188, 152, 26, 211, 20, 164, 107, 61, 238, 127, 205, 189, 117, 254, 122, 167, 187, 192, 45, 104, 61, 229, 98, 167>>>>,
    <<<<115, 115, 115, 115>>, <<40, 229, 16, 68, 244, 169, 203, 174, 43, 189, 61, 138, 157, 140, 144, 42, 209, 69, 93, 66, 32, 130, 119, 172, 74, 145, 59, 0, 48, 56, 163, 220>>>>,
    <<<<195, 159, 32, 32>>, <<43, 86, 241, 203, 94, 183, 23, 86, 49, 131, 21, 143, 111, 146, 163, 29, 112, 161, 205, 64, 80, 93, 42, 117, 222, 109, 192, 17, 251, 9, 193, 188>>>>,
    <<<<195, 159, 32, 97>>, <<81, 47, 100, 52, 147, 210, 127, 214, 140, 49, 124, 14, 149, 233, 151, 25, 174, 190, 70, 115, 175, 218, 113, 243, 187, 85, 239, 116, 241, 175, 233, 243>>>>,
    <<<<195, 159, 97, 32>>, <<31, 180, 126, 168, 24, 36, 47, 195, 111, 251, 182, 83, 182, 88, 184, 66, 229, 204, 23, 105, 110, 142, 188, 25, 218, 5, 115, 2, 194, 99, 39, 57>>>>,
    <<<<195, 159, 97, 97>>, <<253, 35, 172, 51, 89, 184, 94, 32, 25, 199, 21, 26, 235, 110, 172, 220, 145, 92, 153, 232, 17, 120, 199, 134, 136, 184, 227, 86, 183, 228, 63, 230>>>>,
    <<<<195, 159, 195, 159>>, <<170, 10, 78, 90, 190, 6, 116, 211, 248, 169, 6, 200, 247, 202, 85, 234, 64, 158, 94, 203, 75, 252, 12, 120, 172, 79, 210, 230, 233, 48, 241, 126>>>>,
    <<<<32, 32, 32, 32, 32>>, <<120, 121, 152, 29, 79, 34, 106, 143, 1, 145, 211, 103, 48, 192, 114, 5, 215, 165, 255, 28, 120, 15, 202, 155, 47, 144, 95, 37, 38, 76, 246, 54>>>>,
    <<<<32, 32, 32, 97, 32>>, <<238, 255, 29, 22, 227, 33, 45, 16, 169, 182, 227, 197, 177, 133, 128, 248, 110, 114, 170, 132, 74, 152, 107, 104, 171, 72, 68, 26, 134, 55, 6, 193>>>>,
    <<<<32, 32, 97, 32, 32>>, <<184, 213, 192, 114, 34, 70, 253, 174, 124, 213, 216, 197, 6, 147, 100, 221, 112, 46, 166, 190, 29, 2, 171, 118, 171, 231, 66, 214, 78, 65, 114, 237>>>>,
    <<<<32, 32, 97, 97, 32>>, <<140, 50, 185, 61, 88, 132, 23, 25, 156, 21, 221, 65, 24, 227, 27, 98, 249, 251, 29, 108, 214, 23, 70, 92, 171, 91, 50, 114, 103, 83, 166, 147>>>>,
    <<<<32, 32, 195, 159, 32>>, <<107, 90, 7, 251, 154, 3, 93, 151, 175, 102, 230, 196, 251, 6, 239, 96, 7, 72, 32, 245, 17, 17, 202, 184, 55, 134, 249, 124, 178, 111, 161, 232>>>>,
    <<<<32, 97, 32, 32, 32>>, <<111, 173, 93, 227, 94, 50, 142, 141, 62, 72, 119, 25, 30, 76, 221, 38, 18, 27, 214, 23, 165, 27, 20, 170, 200, 205, 215, 158, 23, 141, 27, 99>>>>,
    <<<<32, 97, 32, 97, 32>>, <<212, 254, 212, 241, 108, 3, 194, 35, 240, 155, 136, 58, 14, 242, 33, 64, 175, 139, 58, 30, 241, 123, 159, 190, 16, 115, 56, 197, 145, 255, 89, 118>>>>,
    <<<<32, 97, 97, 32, 32>>, <<228, 82, 88, 198, 248, 25, 207, 246, 164, 174, 180, 57, 74, 47, 179, 123, 1, 83, 222, 98, 69, 147, 41, 78, 111, 187, 165, 195, 5, 249, 44, 7>>>>,
    <<<<32, 97, 97, 97, 32>>, <<109, 22, 109, 11, 22, 51, 19, 17, 229, 67, 80, 103, 39, 163, 240, 158, 179, 46, 4, 250, 62, 185, 240, 240, 212, 35, 115, 94, 32, 251, 99, 187>>>>,
    <<<<32, 97, 195, 159, 32>>, <<52, 232, 200, 132, 61, 80, 102, 22, 114, 221, 75, 73, 38, 80, 89, 144, 133, 230, 27, 111, 244, 149, 216, 79, 92, 201, 48, 4, 94, 196, 82, 127>>>>,
    <<<<32, 115, 115, 115, 115>>, <<158, 172, 89, 57, 195, 92, 187, 170, 232, 187, 254, 173, 166, 234, 130, 98, 105, 171, 107, 232, 148, 207, 1, 63, 28, 100, 20, 182, 91, 4, 199, 88>>>>,
    <<<<32, 195, 159, 32, 32>>, <<220, 97, 177, 145, 34, 194, 64, 81, 89, 251, 173, 109, 114, 181, 19, 45, 111, 211, 115, 176, 161, 40, 32, 214, 199, 126, 100, 236, 93, 142, 158, 20>>>>,
    <<<<32, 195, 159, 97, 32>>, <<37, 2, 153, 242, 139, 203, 57, 34, 198, 53, 84, 129, 182, 219, 36, 247, 196, 107, 161, 106, 238, 89, 103, 92, 245, 55, 124, 238, 174, 55, 162, 100>>>>,
    <<<<32, 195, 159, 195, 159>>, <<251, 110, 216, 15, 116, 92, 118, 8, 240, 239, 28, 43, 118, 110, 87, 61, 0, 218, 96, 121, 126, 120, 12, 168, 234, 254, 158, 146, 62, 31, 136, 180>>>>,
    <<<<97, 32, 32, 115, 115>>, <<9, 172, 148, 255, 240, 109, 129, 155, 237, 82, 208, 189, 120, 52, 194, 184, 128, 225, 143, 84, 46, 47, 32, 15, 86, 25, 1, 80, 58, 238, 142, 62>>>>,
    <<<<97, 32, 32, 195, 159>>, <<189, 101, 86, 197, 234, 233, 226, 205, 106, 51, 237, 206, 110, 84, 110, 236, 183, 172, 188, 205, 49, 184, 130, 6, 226, 224, 200, 83, 10, 191, 23, 235>>>>,
    <<<<97, 32, 97, 115, 115>>, <<130, 220, 66, 188, 174, 250, 18, 147, 226, 86, 59, 244, 129, 131, 171, 163, 119, 191, 166, 19, 12, 146, 205, 209, 118, 88, 248, 98, 74, 117, 125, 198>>>>,
    <<<<97, 32, 97, 195, 159>>, <<163, 93, 196, 85, 152, 197, 35, 108, 21, 47, 249, 208, 199, 142, 205, 186, 152, 156, 114, 20, 0, 147, 250, 227, 12, 34, 13, 86, 251, 120, 125, 2>>>>,
    <<<<97, 32, 115, 115, 97>>, <<69, 52, 93, 62, 109, 43, 161, 88, 31, 27, 112, 133, 252, 49, 246, 81, 190, 107, 167, 122, 26, 214, 39, 209, 219, 2, 97, 231, 72, 86, 35, 192>>>>,
    <<<<97, 32, 195, 159, 97>>, <<94, 255, 111, 227, 25, 77, 160, 232, 123, 157, 28, 204, 8, 0, 151, 105, 2, 177, 235, 217, 193, 231, 100, 229, 225, 168, 12, 199, 83, 8, 48, 84>>>>,
    <<<<97, 97, 32, 115, 115>>, <<194, 47, 173, 182, 48, 157, 215, 103, 120, 110, 74, 105, 252, 30, 89, 85, 254, 159, 27, 11, 102, 93, 32, 7, 70, 209, 130, 226, 189, 70, 207, 173>>>>,
    <<<<97, 97, 32, 195, 159>>, <<7, 69, 229, 31, 115, 182, 180, 219, 77, 119, 106, 184, 127, 107, 145, 10, 185, 164, 107, 243, 138, 246, 95, 214, 6, 228, 0, 26, 62, 191, 179, 222>>>>,
    <<<<97, 97, 97, 115, 115>>, <<155, 27, 139, 199, 144, 201, 54, 244, 33, 172, 48, 251, 197, 228, 128, 178, 183, 95, 158, 144, 240, 169, 30, 168, 84, 165, 123, 73, 3, 96, 101, 13>>>>,
    <<<<97, 97, 97, 195, 159>>, <<70, 112, 12, 168, 34, 172, 65, 224, 145, 208, 219, 240, 234, 114, 71, 11, 213, 167, 132, 101, 231, 187, 59, 208, 49, 25, 243, 10, 161, 33, 156, 155>>>>,
    <<<<97, 97, 115, 115, 97>>, <<176, 71, 208, 171, 149, 177, 187, 234, 141, 178, 56, 216, 182, 88, 184, 176, 221, 111, 130, 119, 161, 107, 197, 103, 157, 54, 25, 44, 167, 56, 19, 52>>>>,
    <<<<97, 97, 195, 159, 97>>, <<84, 157, 83, 45, 12, 154, 215, 190, 10, 144, 21, 103, 37, 78, 9, 53, 19, 175, 98, 79, 202, 139, 129, 68, 58, 121, 240, 219, 123, 7, 185, 183>>>>,
    <<<<97, 115, 115, 32, 97>>, <<240, 81, 54, 27, 250, 130, 2, 193, 93, 3, 41, 111, 203, 94, 166, 232, 55, 143, 214, 57, 151, 76, 204, 226, 187, 182, 20, 67, 236, 118, 240, 49>>>>,
    <<<<97, 115, 115, 97, 97>>, <<25, 43, 224, 206, 222, 30, 119, 59, 239, 225, 182, 170, 158, 70, 39, 218, 88, 181, 244, 39, 90, 104, 36, 142, 110, 80, 238, 28, 21, 147, 109, 120>>>>,
    <<<<97, 115, 115, 115, 115>>, <<200, 135, 224, 42, 197, 136, 144, 141, 249, 3, 207, 50, 205, 181, 177, 198, 172, 144, 73, 2, 56, 144, 243, 159, 56, 110, 239, 217, 121, 177, 219, 186>>>>,
    <<<<97, 195, 159, 32, 97>>, <<149, 90, 108, 205, 236, 5, 62, 9, 254, 226, 73, 51, 107, 173, 208, 146, 206, 227, 254, 245, 108, 242, 112, 39, 32, 166, 162, 47, 141, 136, 156, 40>>>>,
    <<<<97, 195, 159, 97, 97>>, <<73, 129, 81, 148, 142, 138, 25, 54, 9, 62, 90, 85, 34, 153, 153, 158, 109, 199, 196, 90, 144, 2, 55, 193, 213, 145, 118, 154, 175, 91, 53, 19>>>>,
    <<<<97, 195, 159, 195, 159>>, <<253, 66, 211, 134, 19, 237, 186, 182, 187, 157, 63, 85, 99, 143, 12, 238, 22, 105, 163, 175, 224, 224, 250, 132, 183, 216, 247, 18, 172, 57, 202, 236>>>>,
    <<<<115, 115, 32, 32, 97>>, <<40, 245, 73, 90, 249, 16, 230, 174, 247, 83, 62, 140, 127, 37, 224, 16, 30, 230, 37, 38, 43, 173, 54, 133, 196, 228, 204, 254, 208, 161, 162, 178>>>>,
    <<<<115, 115, 32, 97, 97>>, <<59, 252, 52, 206, 68, 230, 104, 110, 150, 129, 216, 76, 190, 58, 203, 44, 56, 140, 193, 230, 20, 27, 38, 169, 222, 54, 193, 70, 107, 179, 217, 159>>>>,
    <<<<115, 115, 32, 115, 115>>, <<11, 253, 47, 238, 54, 205, 118, 124, 150, 23, 146, 131, 233, 152, 189, 22, 231, 85, 66, 229, 176, 39, 71, 52, 53, 102, 244, 138, 73, 223, 22, 34>>>>,
    <<<<115, 115, 97, 32, 97>>, <<5, 84, 69, 38, 12, 73, 87, 233, 122, 42, 11, 165, 240, 33, 6, 16, 97, 21, 208, 50, 49, 157, 163, 185, 158, 216, 18, 9, 98, 152, 31, 36>>>>,
    <<<<115, 115, 97, 97, 97>>, <<51, 251, 55, 233, 230, 223, 95, 67, 50, 166, 87, 56, 213, 210, 11, 31, 223, 229, 156, 252, 29, 153, 76, 236, 49, 168, 229, 80, 81, 104, 162, 130>>>>,
    <<<<115, 115, 97, 115, 115>>, <<51, 63, 69, 172, 163, 37, 241, 85, 148, 209, 34, 12, 148, 218, 2, 205, 105, 124, 164, 148, 151, 33, 239, 139, 120, 161, 246, 173, 221, 151, 0, 21>>>>,
    <<<<115, 115, 115, 115, 32>>, <<207, 226, 14, 112, 203, 94, 189, 247, 235, 92, 166, 136, 190, 81, 253, 242, 194, 233, 64, 54, 37, 44, 98, 249, 131, 52, 208, 20, 133, 8, 58, 51>>>>,
    <<<<115, 115, 115, 115, 97>>, <<120, 157, 212, 145, 60, 9, 185, 14, 142, 101, 26, 228, 71, 123, 212, 33, 147, 108, 238, 68, 143, 72, 8, 215, 93, 120, 29, 227, 120, 232, 103, 214>>>>,
    <<<<195, 159, 32, 32, 97>>, <<71, 180, 134, 228, 14, 230, 125, 161, 94, 96, 244, 22, 45, 40, 25, 174, 88, 211, 228, 222, 152, 52, 77, 90, 196, 27, 60, 4, 240, 42, 0, 89>>>>,
    <<<<195, 159, 32, 97, 97>>, <<192, 158, 246, 64, 24, 102, 110, 213, 118, 153, 131, 112, 149, 24, 23, 187, 173, 39, 37, 62, 121, 132, 39, 66, 34, 39, 232, 13, 229, 59, 109, 33>>>>,
    <<<<195, 159, 32, 195, 159>>, <<59, 86, 99, 172, 80, 179, 157, 130, 83, 231, 185, 191, 192, 245, 195, 35, 54, 80, 156, 15, 181, 59, 43, 75, 130, 148, 140, 148, 249, 82, 99, 175>>>>,
    <<<<195, 159, 97, 32, 97>>, <<241, 33, 63, 170, 142, 41, 203, 208, 75, 14, 159, 172, 224, 73, 29, 67, 211, 11, 134, 246, 232, 69, 85, 209, 10, 20, 16, 60, 150, 59, 45, 41>>>>,
    <<<<195, 159, 97, 97, 97>>, <<42, 212, 168, 8, 189, 166, 186, 122, 154, 34, 104, 223, 36, 7, 163, 65, 14, 186, 239, 16, 230, 205, 5, 102, 23, 62, 73, 214, 224, 176, 146, 181>>>>,
    <<<<195, 159, 97, 195, 159>>, <<72, 28, 67, 70, 89, 185, 28, 79, 191, 212, 57, 211, 23, 43, 188, 88, 211, 9, 191, 54, 138, 250, 208, 126, 7, 52, 153, 222, 224, 80, 45, 230>>>>,
    <<<<195, 159, 195, 159, 32>>, <<128, 206, 93, 157, 247, 84, 106, 25, 171, 154, 156, 175, 108, 4, 58, 55, 165, 199, 127, 7, 5, 222, 107, 126, 191, 186, 228, 142, 238, 75, 112, 226>>>>,
    <<<<195, 159, 195, 159, 97>>, <<252, 219, 212, 161, 199, 198, 61, 162, 216, 7, 205, 85, 208, 215, 91, 170, 42, 73, 223, 13, 97, 115, 162, 6, 22, 158, 182, 62, 94, 175, 131, 205>>>>,
    <<<<32, 32, 32, 195, 159, 32>>, <<137, 34, 194, 246, 49, 249, 34, 80, 1, 8, 107, 224, 142, 244, 170, 165, 252, 109, 53, 78, 225, 188, 11, 218, 39, 125, 58, 242, 28, 116, 250, 199>>>>,
    <<<<32, 32, 97, 195, 159, 32>>, <<18, 190, 46, 1, 60, 65, 201, 208, 100, 174, 179, 173, 148, 99, 199, 254, 154, 17, 241, 4, 82, 185, 172, 134, 8, 13, 15, 254, 59, 3, 216, 51>>>>,
    <<<<32, 32, 195, 159, 32, 32>>, <<155, 175, 138, 6, 167, 10, 11, 55, 10, 208, 88, 141, 120, 110, 31, 249, 180, 99, 49, 204, 230, 65, 42, 72, 5, 2, 221, 218, 38, 74, 230, 254>>>>,
    <<<<32, 32, 195, 159, 97, 32>>, <<46, 196, 164, 212, 225, 193, 12, 127, 219, 130, 69, 142, 126, 136, 38, 98, 13, 209, 109, 86, 102, 222, 165, 72, 116, 156, 164, 133, 26, 76, 1, 178>>>>,
    <<<<32, 97, 32, 195, 159, 32>>, <<8, 115, 51, 28, 214, 106, 197, 148, 229, 120, 110, 198, 4, 118, 44, 233, 34, 12, 164, 2, 155, 151, 204, 44, 222, 240, 164, 112, 49, 114, 69, 17>>>>,
    <<<<32, 97, 97, 195, 159, 32>>, <<224, 104, 190, 30, 147, 51, 91, 48, 238, 51, 18, 55, 210, 138, 164, 7, 52, 244, 38, 229, 142, 120, 24, 224, 104, 116, 130, 73, 14, 21, 77, 148>>>>,
    <<<<32, 97, 195, 159, 32, 32>>, <<136, 186, 252, 137, 248, 129, 247, 228, 93, 47, 79, 96, 114, 3, 194, 35, 42, 54, 100, 103, 242, 192, 61, 24, 235, 171, 226, 178, 88, 214, 181, 57>>>>,
    <<<<32, 97, 195, 159, 97, 32>>, <<183, 41, 248, 22, 228, 26, 105, 245, 222, 60, 57, 42, 61, 76, 81, 187, 17, 154, 177, 32, 167, 169, 18, 223, 38, 241, 9, 179, 146, 160, 43, 153>>>>,
    <<<<32, 195, 159, 32, 32, 32>>, <<12, 209, 130, 178, 57, 208, 30, 119, 15, 97, 245, 53, 78, 37, 181, 188, 100, 1, 118, 221, 40, 27, 63, 17, 31, 12, 10, 244, 91, 105, 92, 22>>>>,
    <<<<32, 195, 159, 32, 97, 32>>, <<244, 44, 246, 231, 29, 22, 175, 134, 84, 72, 6, 76, 198, 253, 60, 193, 130, 231, 25, 63, 167, 214, 124, 230, 212, 76, 244, 174, 54, 239, 53, 61>>>>,
    <<<<32, 195, 159, 97, 32, 32>>, <<238, 133, 132, 139, 150, 184, 250, 254, 229, 118, 225, 27, 225, 69, 135, 179, 38, 232, 220, 225, 74, 121, 32, 21, 99, 7, 131, 211, 56, 210, 145, 48>>>>,
    <<<<32, 195, 159, 97, 97, 32>>, <<119, 73, 254, 89, 250, 106, 40, 72, 146, 188, 77, 158, 168, 88, 207, 223, 171, 181, 151, 162, 143, 226, 12, 207, 201, 168, 156, 199, 198, 21, 6, 83>>>>,
    <<<<32, 195, 159, 195, 159, 32>>, <<103, 195, 137, 9, 249, 137, 54, 220, 126, 89, 36, 7, 29, 53, 168, 148, 88, 72, 112, 199, 248, 125, 51, 195, 163, 250, 123, 49, 90, 162, 98, 253>>>>,
    <<<<97, 32, 115, 115, 115, 115>>, <<10, 182, 253, 239, 156, 157, 206, 43, 180, 163, 152, 27, 204, 65, 88, 170, 147, 116, 145, 152, 27, 105, 195, 190, 6, 4, 232, 214, 40, 59, 55, 203>>>>,
    <<<<97, 32, 195, 159, 195, 159>>, <<209, 176, 53, 34, 34, 16, 196, 161, 224, 125, 21, 251, 96, 250, 67, 191, 160, 78, 40, 105, 84, 126, 203, 153, 244, 135, 53, 124, 91, 230, 34, 52>>>>,
    <<<<97, 97, 115, 115, 115, 115>>, <<253, 22, 143, 18, 244, 129, 137, 234, 67, 47, 236, 141, 118, 103, 41, 209, 46, 187, 42, 83, 82, 11, 139, 155, 78, 46, 140, 180, 219, 229, 161, 192>>>>,
    <<<<97, 97, 195, 159, 195, 159>>, <<73, 208, 201, 120, 115, 28, 14, 135, 239, 86, 99, 135, 123, 94, 141, 153, 76, 200, 90, 162, 197, 163, 92, 248, 16, 0, 162, 222, 2, 75, 59, 151>>>>,
    <<<<97, 115, 115, 32, 115, 115>>, <<123, 56, 243, 13, 219, 88, 189, 233, 110, 123, 130, 255, 94, 38, 130, 71, 191, 222, 69, 240, 23, 240, 184, 9, 14, 250, 152, 234, 14, 34, 193, 255>>>>,
    <<<<97, 115, 115, 97, 115, 115>>, <<225, 90, 209, 157, 225, 11, 212, 118, 222, 157, 153, 106, 152, 17, 231, 154, 5, 123, 13, 221, 11, 223, 208, 146, 198, 226, 252, 86, 112, 13, 43, 123>>>>,
    <<<<97, 115, 115, 115, 115, 97>>, <<158, 131, 206, 50, 73, 213, 203, 117, 26, 21, 115, 217, 41, 217, 98, 91, 136, 85, 219, 65, 109, 108, 116, 31, 232, 114, 199, 0, 128, 27, 23, 50>>>>,
    <<<<97, 195, 159, 32, 195, 159>>, <<170, 133, 225, 18, 217, 168, 197, 3, 55, 15, 120, 122, 202, 207, 10, 57, 147, 143, 240, 77, 76, 9, 239, 134, 250, 50, 49, 209, 160, 77, 175, 67>>>>,
    <<<<97, 195, 159, 97, 195, 159>>, <<27, 77, 40, 86, 106, 121, 166, 10, 204, 64, 166, 21, 248, 113, 187, 230, 93, 17, 143, 184, 74, 92, 78, 31, 252, 251, 41, 161, 167, 237, 6, 16>>>>,
    <<<<97, 195, 159, 195, 159, 97>>, <<194, 59, 59, 220, 21, 100, 20, 188, 146, 158, 157, 94, 191, 218, 184, 232, 89, 30, 88, 74, 207, 51, 250, 86, 25, 208, 100, 255, 177, 255, 115, 216>>>>,
    <<<<115, 115, 32, 32, 115, 115>>, <<61, 64, 175, 100, 32, 92, 4, 182, 26, 0, 69, 252, 148, 51, 33, 213, 96, 33, 124, 94, 15, 123, 97, 113, 107, 30, 148, 228, 158, 150, 20, 169>>>>,
    <<<<115, 115, 32, 97, 115, 115>>, <<42, 218, 159, 44, 53, 59, 10, 112, 148, 84, 72, 121, 163, 190, 218, 204, 154, 67, 238, 211, 205, 240, 184, 16, 88, 35, 57, 206, 158, 174, 41, 209>>>>,
    <<<<115, 115, 32, 115, 115, 97>>, <<249, 173, 194, 222, 106, 24, 11, 138, 26, 172, 37, 67, 230, 20, 86, 15, 109, 14, 30, 83, 186, 125, 126, 41, 5, 57, 196, 214, 114, 108, 91, 219>>>>,
    <<<<115, 115, 97, 32, 115, 115>>, <<210, 171, 86, 186, 44, 82, 252, 221, 101, 167, 196, 241, 197, 45, 129, 50, 245, 74, 142, 60, 112, 220, 103, 4, 53, 229, 194, 160, 70, 0, 252, 228>>>>,
    <<<<115, 115, 97, 97, 115, 115>>, <<217, 85, 147, 98, 59, 139, 220, 203, 235, 131, 116, 136, 188, 106, 71, 166, 249, 239, 102, 228, 156, 230, 19, 248, 92, 25, 77, 176, 13, 65, 15, 150>>>>,
    <<<<115, 115, 97, 115, 115, 97>>, <<85, 78, 37, 85, 86, 219, 65, 94, 38, 138, 98, 113, 249, 74, 241, 205, 80, 238, 41, 102, 51, 108, 135, 22, 238, 159, 14, 199, 126, 18, 17, 125>>>>,
    <<<<115, 115, 115, 115, 32, 97>>, <<213, 201, 159, 232, 160, 63, 233, 137, 1, 97, 105, 114, 229, 169, 116, 251, 28, 7, 253, 202, 246, 2, 157, 17, 108, 39, 101, 2, 32, 146, 173, 254>>>>,
    <<<<115, 115, 115, 115, 97, 97>>, <<219, 49, 181, 169, 132, 71, 214, 7, 115, 27, 214, 43, 69, 93, 199, 106, 108, 238, 159, 88, 253, 249, 129, 157, 242, 180, 250, 3, 139, 150, 111, 251>>>>,
    <<<<115, 115, 115, 115, 115, 115>>, <<10, 27, 8, 111, 7, 37, 19, 235, 177, 211, 215, 21, 22, 101, 131, 19, 91, 112, 103, 129, 206, 73, 72, 203, 30, 185, 11, 152, 55, 235, 87, 7>>>>,
    <<<<195, 159, 32, 32, 195, 159>>, <<162, 156, 49, 70, 116, 216, 119, 129, 254, 63, 36, 12, 2, 96, 196, 20, 69, 108, 105, 39, 197, 181, 34, 116, 193, 190, 251, 100, 35, 178, 170, 200>>>>,
    <<<<195, 159, 32, 97, 195, 159>>, <<115, 85, 5, 40, 176, 118, 140, 242, 218, 194, 164, 214, 168, 0, 107, 247, 183, 82, 65, 74, 59, 50, 87, 7, 14, 148, 222, 25, 44, 15, 125, 28>>>>,
    <<<<195, 159, 32, 195, 159, 97>>, <<92, 241, 24, 137, 191, 74, 133, 72, 119, 229, 17, 34, 202, 27, 219, 141, 132, 92, 207, 87, 30, 225, 7, 222, 209, 125, 252, 135, 53, 229, 243, 72>>>>,
    <<<<195, 159, 97, 32, 195, 159>>, <<131, 241, 84, 93, 201, 57, 101, 200, 239, 91, 66, 165, 12, 182, 177, 15, 42, 161, 160, 143, 79, 18, 22, 116, 205, 150, 139, 38, 78, 97, 210, 174>>>>,
    <<<<195, 159, 97, 97, 195, 159>>, <<210, 82, 216, 228, 149, 23, 60, 208, 213, 20, 165, 168, 23, 189, 61, 42, 84, 93, 105, 0, 246, 15, 116, 161, 80, 91, 190, 197, 157, 171, 139, 70>>>>,
    <<<<195, 159, 97, 195, 159, 97>>, <<163, 66, 159, 90, 76, 75, 206, 88, 41, 10, 158, 112, 153, 103, 178, 236, 100, 230, 176, 88, 222, 109, 110, 224, 134, 215, 83, 119, 28, 107, 250, 220>>>>,
    <<<<195, 159, 195, 159, 32, 97>>, <<22, 63, 247, 52, 157, 127, 164, 163, 85, 244, 184, 187, 61, 215, 128, 47, 248, 139, 28, 45, 122, 198, 202, 137, 255, 144, 63, 39, 136, 172, 69, 87>>>>,
    <<<<195, 159, 195, 159, 97, 97>>, <<7, 233, 231, 230, 139, 23, 196, 147, 57, 118, 249, 211, 53, 37, 175, 123, 215, 242, 155, 237, 36, 226, 145, 43, 159, 17, 219, 107, 4, 114, 218, 227>>>>,
    <<<<195, 159, 195, 159, 195, 159>>, <<47, 75, 102, 182, 237, 198, 52, 22, 192, 170, 239, 128, 109, 226, 55, 56, 38, 30, 254, 166, 154, 31, 8, 209, 7, 155, 14, 76, 255, 60, 90, 86>>>>,
    <<<<32, 32, 195, 159, 195, 159, 32>>, <<23, 136, 155, 61, 242, 126, 180, 156, 145, 56, 202, 59, 8, 194, 187, 134, 226, 104, 245, 164, 243, 58, 233, 154, 110, 56, 152, 172, 30, 236, 245, 69>>>>,
    <<<<32, 97, 195, 159, 195, 159, 32>>, <<50, 78, 57, 184, 246, 120, 32, 74, 245, 156, 57, 115, 139, 105, 230, 195, 243, 238, 47, 144, 170, 236, 192, 20, 166, 49, 190, 177, 3, 236, 98, 184>>>>,
    <<<<32, 195, 159, 32, 195, 159, 32>>, <<133, 154, 239, 112, 87, 215, 221, 185, 242, 233, 79, 13, 77, 60, 39, 171, 25, 199, 232, 190, 99, 7, 38, 64, 200, 191, 212, 242, 135, 38, 232, 8>>>>,
    <<<<32, 195, 159, 97, 195, 159, 32>>, <<39, 157, 67, 42, 212, 174, 11, 36, 151, 216, 156, 39, 174, 175, 11, 6, 203, 55, 237, 243, 169, 7, 127, 224, 121, 227, 216, 53, 115, 34, 142, 209>>>>,
    <<<<32, 195, 159, 195, 159, 32, 32>>, <<187, 238, 128, 138, 202, 248, 103, 226, 9, 69, 36, 247, 70, 127, 126, 251, 53, 212, 7, 33, 136, 102, 128, 224, 200, 242, 231, 73, 238, 45, 245, 234>>>>,
    <<<<32, 195, 159, 195, 159, 97, 32>>, <<173, 190, 172, 67, 23, 113, 88, 245, 225, 221, 218, 56, 86, 20, 154, 22, 30, 238, 208, 129, 76, 181, 39, 165, 97, 63, 189, 210, 22, 209, 210, 241>>>>,
    <<<<97, 115, 115, 115, 115, 115, 115>>, <<212, 233, 186, 189, 157, 192, 55, 88, 89, 141, 116, 247, 19, 52, 232, 50, 195, 12, 212, 185, 86, 14, 186, 126, 137, 61, 170, 54, 89, 77, 233, 211>>>>,
    <<<<97, 195, 159, 195, 159, 195, 159>>, <<154, 150, 215, 66, 144, 235, 178, 56, 177, 78, 99, 253, 81, 62, 56, 252, 97, 205, 23, 141, 90, 95, 169, 12, 84, 111, 167, 4, 76, 71, 188, 200>>>>,
    <<<<115, 115, 32, 115, 115, 115, 115>>, <<143, 79, 104, 191, 111, 44, 130, 84, 253, 52, 1, 3, 189, 235, 211, 195, 234, 178, 239, 213, 1, 23, 149, 245, 53, 196, 243, 5, 12, 32, 54, 157>>>>,
    <<<<115, 115, 97, 115, 115, 115, 115>>, <<127, 173, 43, 189, 16, 59, 174, 174, 114, 184, 242, 113, 145, 63, 241, 37, 209, 235, 184, 237, 205, 237, 82, 197, 179, 167, 9, 174, 97, 73, 105, 215>>>>,
    <<<<115, 115, 115, 115, 32, 115, 115>>, <<141, 145, 159, 80, 154, 66, 166, 243, 152, 115, 191, 0, 101, 165, 166, 221, 208, 84, 130, 113, 95, 252, 106, 137, 78, 61, 223, 76, 248, 42, 253, 19>>>>,
    <<<<115, 115, 115, 115, 97, 115, 115>>, <<45, 229, 1, 166, 27, 145, 155, 7, 34, 37, 9, 144, 198, 228, 127, 133, 128, 106, 6, 246, 6, 9, 248, 132, 67, 127, 58, 21, 125, 23, 24, 53>>>>,
    <<<<115, 115, 115, 115, 115, 115, 97>>, <<168, 28, 251, 200, 179, 199, 195, 86, 71, 112, 237, 64, 80, 229, 117, 17, 76, 87, 237, 236, 11, 109, 179, 14, 244, 9, 154, 5, 222, 187, 29, 66>>>>,
    <<<<195, 159, 32, 195, 159, 195, 159>>, <<120, 131, 100, 203, 192, 250, 200, 68, 233, 31, 21, 105, 55, 73, 35, 120, 144, 0, 122, 160, 184, 113, 42, 237, 199, 139, 35, 36, 197, 26, 112, 164>>>>,
    <<<<195, 159, 97, 195, 159, 195, 159>>, <<189, 126, 177, 166, 10, 198, 6, 129, 132, 186, 191, 164, 5, 34, 204, 242, 163, 154, 15, 21, 62, 44, 185, 47, 253, 34, 252, 148, 167, 52, 218, 105>>>>,
    <<<<195, 159, 195, 159, 32, 195, 159>>, <<142, 170, 191, 101, 8, 118, 133, 117, 79, 75, 81, 190, 244, 145, 149, 196, 129, 134, 214, 239, 158, 181, 67, 44, 235, 186, 121, 109, 93, 97, 12, 113>>>>,
    <<<<195, 159, 195, 159, 97, 195, 159>>, <<223, 216, 12, 246, 210, 139, 244, 206, 62, 235, 4, 217, 174, 220, 77, 206, 158, 55, 39, 95, 31, 0, 79, 15, 190, 15, 202, 120, 240, 141, 119, 197>>>>,
    <<<<195, 159, 195, 159, 195, 159, 97>>, <<214, 1, 87, 105, 83, 214, 69, 69, 40, 177, 56, 6, 32, 232, 25, 138, 180, 146, 57, 254, 195, 67, 27, 227, 220, 161, 144, 109, 129, 64, 25, 34>>>>,
    <<<<32, 195, 159, 195, 159, 195, 159, 32>>, <<25, 254, 100, 45, 108, 137, 67, 94, 207, 27, 196, 227, 134, 117, 166, 140, 117, 207, 195, 139, 36, 170, 173, 235, 190, 150, 137, 33, 108, 225, 179, 253>>>>,
    <<<<115, 115, 115, 115, 115, 115, 115, 115>>, <<232, 164, 52, 174, 252, 139, 115, 229, 200, 122, 157, 68, 88, 147, 224, 44, 120, 76, 89, 176, 153, 62, 163, 140, 254, 102, 59, 118, 102, 134, 13, 224>>>>,
    <<<<195, 159, 195, 159, 195, 159, 195, 159>>, <<81, 204, 226, 201, 23, 27, 19, 2, 109, 252, 11, 83, 158, 224, 47, 208, 106, 176, 10, 240, 161, 232, 180, 244, 26, 146, 84, 59, 232, 178, 65, 72>>>>
}

sha256(msg) == (CHOOSE p \in Sha256Digests : p[1] = msg)[2]

\* hexdigest(): two lower-case hexadecimal digits per byte.
HexDigits == <<"0", "1", "2", "3", "4", "5", "6", "7", "8", "9", "a", "b", "c", "d", "e", "f">>

RECURSIVE hexdigest(_)
hexdigest(bytes) ==
    IF bytes = <<>> THEN <<>>
    ELSE <<HexDigits[(Head(bytes) \div 16) + 1], HexDigits[(Head(bytes) % 16) + 1]>>
         \o hexdigest(Tail(bytes))

\* hexdigest()[:15]: the slice one character short.
GetCacheKeyShort(input_text) ==
    SubSeq(hexdigest(sha256(encode(str_strip(str_lower(input_text))))), 1, 15)

\* The key without .strip(): surrounding blanks are hashed too.
GetCacheKeyUnstripped(input_text) ==
    SubSeq(hexdigest(sha256(encode(str_lower(input_text)))), 1, 16)

\* hashlib.sha256(input_text.lower().strip().encode()).hexdigest()[:16]
_get_cache_key(input_text) ==
    SubSeq(hexdigest(sha256(encode(str_strip(str_lower(input_text))))), 1, 16)

\* A call of _get_cache_key on the current input, and the next input.
GetCacheKey ==
    /\ keyOut = NotCalled
    /\ keyOut' = _get_cache_key(keyIn)
    /\ UNCHANGED <<cfgVars, dirExists, localFiles, gcsBlobs, now, last, keyIn, race, probe>>

InitKey ==
    /\ Constructed(FALSE, [use_gcs |-> FALSE, bucket_name |-> NONE, client |-> "not called"])
    /\ EmptyStores
    /\ keyIn \in Texts(MaxLen)
    /\ keyOut = NotCalled

SpecKey == InitKey /\ [][GetCacheKey]_vars

----------------------------------------------------------------------------
(* EntityResolver._load_from_cache *)

\* config.CACHE_TTL_DAYS, by default.
CACHE_TTL_DAYS == 7

\* Clock readings in a day: the resolution of the clock.
TicksPerDay == 2

\* Days the clock may advance past a saved record.
MaxAgeDays == 10

\* '2000-01-01', the cached_at assumed for a record without one, in days before day 0.
Year2000 == -9132

\* timedelta.days: whole days, rounded down.
timedelta_days(ticks) == ticks \div TicksPerDay

\* _load_from_cache taking the current time for a record without cached_at.
LoadResultMissingStampIsNow(files, k, h, fault) ==
    IF fault = "stat" THEN Raise("OSError")
    ELSE IF files[k] = Absent THEN None
    ELSE IF fault = "read" \/ files[k] = Garbage THEN None
    ELSE LET data == json_loads(files[k].obj)
             stamp == IF "cached_at" \in DOMAIN data THEN data["cached_at"]
                      ELSE isoformat(h)
         IN  IF ~(stamp.t = "str" /\ stamp.s = "iso8601") THEN None
             ELSE IF timedelta_days(h - stamp.n) > CACHE_TTL_DAYS THEN None
             ELSE Dict(data)

\* What _load_from_cache returns at clock reading h.  exists() is called outside the try
\* block; fromisoformat raises, inside it, for anything but ISO-8601 text.
LoadResult(files, k, h, fault) ==
    IF fault = "stat" THEN Raise("OSError")
    ELSE IF files[k] = Absent THEN None
    ELSE IF fault = "read" \/ files[k] = Garbage THEN None
    ELSE LET data == json_loads(files[k].obj)
             stamp == IF "cached_at" \in DOMAIN data THEN data["cached_at"]
                      ELSE isoformat(Year2000 * TicksPerDay)
         IN  IF ~(stamp.t = "str" /\ stamp.s = "iso8601") THEN None
             ELSE IF timedelta_days(h - stamp.n) > CACHE_TTL_DAYS THEN None
             ELSE Dict(data)

_load_from_cache(k) ==
    \E fault \in {"none", "stat", "read"} :
        /\ fault = "read" => localFiles[k] # Absent
        /\ last' = [Call("_load_from_cache", k, None, None, fault, now,
                         LoadResult(localFiles, k, now, fault))
                        EXCEPT !.backend = "local"]
        /\ UNCHANGED <<cfgVars, keyVars, race, probe, dirExists, localFiles, gcsBlobs, now>>

\* A record the resolver saved at day 0.
InitStale ==
    /\ Constructed(FALSE, [use_gcs |-> FALSE, bucket_name |-> NONE, client |-> "not called"])
    /\ race = NoRace
    /\ probe = NoProbe
    /\ dirExists = TRUE
    /\ localFiles = [k \in Keys |-> IF k = Key1 THEN JsonBlob(json_dumps(Stamp(DocPlain, 0)))
                                    ELSE Absent]
    /\ gcsBlobs = [k \in Keys |-> Absent]
    /\ now = 0
    /\ last = [op |-> "_save_to_cache", key |-> Key1, arg |-> None, prior |-> None,
               fault |-> "none", at |-> 0, backend |-> "local", ret |-> None]
    /\ keyIn = <<>>
    /\ keyOut = NotCalled

NextStale ==
    \/ Advance(MaxAgeDays * TicksPerDay)
    \/ \E k \in Keys : _load_from_cache(k)

SpecStale == InitStale /\ [][NextStale]_vars

----------------------------------------------------------------------------
(* Two threads in _set_to_local / _save_to_cache on the same key *)

\* The write() calls a document may take to reach the file.
MaxChunks == 2

\* The i-th piece of the text json.dump produces for writer w's document.
Chunk(w, i) == [w |-> w, i |-> i]

\* Bytes the file system fills in when a write lands beyond the end of the file.
Hole == Chunk("hole", 0)

DocChunks(w, n) == [i \in 1..n |-> Chunk(w, i)]

\* write() at a position of the file descriptor's own: it overwrites what is
\* there and extends the file when it lands at or beyond its end.
WriteAt(file, pos, c) ==
    IF pos <= Len(file) THEN [file EXCEPT ![pos] = c]
    ELSE file \o [i \in 1..(pos - Len(file) - 1) |-> Hole] \o <<c>>

\* open(cache_file, 'w'): the file is truncated, the descriptor starts at 1.
RaceOpen(w) ==
    /\ race.pc[w] = "called"
    /\ race' = [race EXCEPT !.file = <<>>, !.pc[w] = "open", !.pos[w] = 1]
    /\ UNCHANGED <<cfgVars, keyVars, probe, dirExists, localFiles, gcsBlobs, now, last>>

\* json.dump(data, f, indent=2): the next piece of the text is written.
RaceWrite(w) ==
    /\ race.pc[w] = "open"
    /\ race.pos[w] <= Len(race.doc[w])
    /\ race' = [race EXCEPT !.file = WriteAt(race.file, race.pos[w], race.doc[w][race.pos[w]]),
                            !.pos[w] = race.pos[w] + 1,
                            !.lastw = w]
    /\ UNCHANGED <<cfgVars, keyVars, probe, dirExists, localFiles, gcsBlobs, now, last>>

\* The with block is left and the call returns.
RaceClose(w) ==
    /\ race.pc[w] = "open"
    /\ race.pos[w] > Len(race.doc[w])
    /\ race' = [race EXCEPT !.pc[w] = "returned"]
    /\ UNCHANGED <<cfgVars, keyVars, probe, dirExists, localFiles, gcsBlobs, now, last>>

\* Both threads have been called, each with a document of its own.
InitRace ==
    /\ Constructed(FALSE, [use_gcs |-> FALSE, bucket_name |-> NONE, client |-> "not called"])
    /\ \E na, nb \in 1..MaxChunks :
          race = [file |-> <<>>,
                  doc |-> [w \in Writers |-> IF w = "A" THEN DocChunks(w, na) ELSE DocChunks(w, nb)],
                  pc |-> [w \in Writers |-> "called"],
                  pos |-> [w \in Writers |-> 0],
                  lastw |-> "none"]
    /\ probe = NoProbe
    /\ dirExists = TRUE
    /\ localFiles = [k \in Keys |-> Absent]
    /\ gcsBlobs = [k \in Keys |-> Absent]
    /\ now = 0
    /\ last = [op |-> "__init__", key |-> NoKey, arg |-> None, prior |-> None,
               fault |-> "none", at |-> 0, backend |-> "none", ret |-> None]
    /\ keyIn = <<>>
    /\ keyOut = NotCalled

NextRace ==
    \/ \E w \in Writers : RaceOpen(w)
    \/ \E w \in Writers : RaceWrite(w)
    \/ \E w \in Writers : RaceClose(w)

SpecRace == InitRace /\ [][NextRace]_vars

----------------------------------------------------------------------------
(* The two backends side by side *)

\* One call handed to the local operation and to the GCS operation, with what
\* each returned.
SideBySide(op, k, arg, l, g) ==
    [op |-> op, key |-> k, arg |-> arg, prior |-> None, fault |-> "none", at |-> now,
     backend |-> "both", ret |-> [kind |-> "pair", local |-> l, gcs |-> g]]

both_get(k) ==
    /\ last' = SideBySide("get", k, None, _get_from_local(localFiles, k, "none"),
                          _get_from_gcs(gcsBlobs, k, "none"))
    /\ UNCHANGED <<cfgVars, keyVars, race, probe, dirExists, localFiles, gcsBlobs, now>>

both_set(k, d) ==
    LET data == Stamp(d, now)
        l == _set_to_local(localFiles, dirExists, k, data, "none")
        g == _set_to_gcs(gcsBlobs, k, data, "none")
    IN  /\ localFiles' = l.files
        /\ gcsBlobs' = g.blobs
        /\ last' = SideBySide("set", k, Dict(d), l.ret, g.ret)
        /\ UNCHANGED <<cfgVars, keyVars, race, probe, dirExists, now>>

both_list_keys ==
    /\ last' = SideBySide("list_keys", NoKey, None, _list_local_keys(localFiles, "none"),
                          _list_gcs_keys(gcsBlobs, "none"))
    /\ UNCHANGED <<cfgVars, keyVars, race, probe, dirExists, localFiles, gcsBlobs, now>>

both_delete(k) ==
    LET l == _delete_from_local(localFiles, k, "none")
        g == _delete_from_gcs(gcsBlobs, k, "none")
    IN  /\ localFiles' = l.files
        /\ gcsBlobs' = g.blobs
        /\ last' = SideBySide("delete", k, None, l.ret, g.ret)
        /\ UNCHANGED <<cfgVars, keyVars, race, probe, dirExists, now>>

both_clear_all ==
    LET l == _clear_local(localFiles, "none", {})
        g == _clear_gcs(gcsBlobs, "none", {})
    IN  /\ localFiles' = l.files
        /\ gcsBlobs' = g.blobs
        /\ last' = SideBySide("clear_all", NoKey, None, l.ret, g.ret)
        /\ UNCHANGED <<cfgVars, keyVars, race, probe, dirExists, now>>

\* Both stores empty, the directory in place.
InitPair ==
    /\ Constructed(FALSE, [use_gcs |-> FALSE, bucket_name |-> NONE, client |-> "not called"])
    /\ EmptyStores
    /\ keyIn = <<>>
    /\ keyOut = NotCalled

NextPair ==
    \/ \E k \in Keys : both_get(k)
    \/ \E k \in Keys, d \in Docs : both_set(k, d)
    \/ both_list_keys
    \/ \E k \in Keys : both_delete(k)
    \/ both_clear_all

SpecPair == InitPair /\ [][NextPair]_vars

----------------------------------------------------------------------------
(* EntityResolver._find_high_signal_sources and _assess_evidence_quality *)

\* len(content) > 500
MinContent == 500

\* content[:1000]
HeadLen == 1000

\* patterns: the source types in dict order, each with its candidate URLs (the
\* path under https://{base_domain}) in list order.
patterns ==
    << [type |-> "security_page",
        urls |-> <<"/security", "/trust", "/compliance", "/trust-center">>],
       [type |-> "terms_of_service", urls |-> <<"/terms", "/tos", "/legal/terms">>],
       [type |-> "privacy_policy", urls |-> <<"/privacy", "/legal/privacy">>],
       [type |-> "psirt_page", urls |-> <<"/psirt", "/security/advisories">>] >>

kev_url == "cisa.gov/known_exploited_vulnerabilities.json"

\* What requests.get brings back for a page: no content (timeout, HTTP error)
\* or a text of some length in which '404' first occurs at position at404
\* (0: nowhere).
Responses ==
    {[content |-> FALSE, len |-> 0, at404 |-> 0]} \cup
    {r \in [content : {TRUE}, len : {0, MinContent, MinContent + 1, HeadLen + 200},
            at404 : {0, 1, HeadLen - 2, HeadLen - 1}] :
        r.at404 > 0 => r.at404 + 2 <= r.len}

\* '404' in content[:1000].lower(): the three characters lie within the slice.
in_head(r) == r.at404 > 0 /\ r.at404 + 2 <= HeadLen

\* if content and len(content) > 500 and '404' not in content[:1000].lower()
accepted(r) == r.content /\ r.len > 0 /\ r.len > MinContent /\ ~in_head(r)

\* _fetch_url_safely: the label of a page that was fetched, by the host it is on.
source_label(site) == IF site = "independent" THEN "independent" ELSE "vendor-stated"

not_found == [found |-> FALSE, url |-> NONE, source_label |-> NONE]
found_at(u, site) == [found |-> TRUE, url |-> u, source_label |-> source_label(site)]

\* _check_cisa_kev, by what the catalog fetch brought back.
KevResponses == {"no content", "unparsable", "no match", "match"}

_check_cisa_kev(r) ==
    IF r = "match" THEN [found |-> TRUE, url |-> kev_url, source_label |-> "independent"]
    ELSE [found |-> FALSE, source_label |-> "independent"]

\* dict.get
Get(d, f, default) == IF f \in DOMAIN d THEN d[f] ELSE default

\* sum(1 for s in sources.values() if ...)
CountIf(sources, P(_)) == Cardinality({t \in DOMAIN sources : P(sources[t])})

is_found(s) == Get(s, "found", FALSE)
is_independent(s) == is_found(s) /\ Get(s, "source_label", NONE) = "independent"
is_vendor(s) == is_found(s) /\ Get(s, "source_label", NONE) = "vendor-stated"

\* The grading with 'good' given to three sources of any label.
AssessEvidenceQualityAnyLabel(sources) ==
    LET found_count == CountIf(sources, is_found)
        independent_count == CountIf(sources, is_independent)
        vendor_count == CountIf(sources, is_vendor)
    IN  [quality |-> IF found_count >= 3 THEN "good"
                     ELSE IF found_count >= 2 THEN "moderate"
                     ELSE IF found_count = 1 THEN "limited"
                     ELSE "insufficient",
         sources_found |-> found_count,
         sources_attempted |-> Cardinality(DOMAIN sources),
         independent_sources |-> independent_count,
         vendor_sources |-> vendor_count]

_assess_evidence_quality(sources) ==
    LET found_count == CountIf(sources, is_found)
        independent_count == CountIf(sources, is_independent)
        vendor_count == CountIf(sources, is_vendor)
    IN  [quality |-> IF found_count >= 3 /\ independent_count >= 1 THEN "good"
                     ELSE IF found_count >= 2 THEN "moderate"
                     ELSE IF found_count = 1 THEN "limited"
                     ELSE "insufficient",
         sources_found |-> found_count,
         sources_attempted |-> Cardinality(DOMAIN sources),
         independent_sources |-> independent_count,
         vendor_sources |-> vendor_count]

\* The probe moves on to the next source type, or to the KEV check after the last.
NextType(p) ==
    IF p.type = Len(patterns) THEN [p EXCEPT !.pc = "kev"]
    ELSE [p EXCEPT !.type = p.type + 1, !.url = 1,
                   !.sources = (patterns[p.type + 1].type :> not_found) @@ p.sources]

\* _find_high_signal_sources without the break: every candidate is fetched and
\* the last accepted one is recorded.
ProbedNoBreak(p, r) ==
    LET u == patterns[p.type].urls[p.url]
        q == [p EXCEPT !.resp = r,
                   !.log = Append(p.log, [type |-> patterns[p.type].type, url |-> u,
                                          ok |-> accepted(r)])]
        q2 == IF accepted(r)
              THEN [q EXCEPT !.sources = (patterns[p.type].type :> found_at(u, p.site)) @@ q.sources]
              ELSE q
    IN  IF p.url = Len(patterns[p.type].urls) THEN NextType(q2)
        ELSE [q2 EXCEPT !.url = p.url + 1]

\* The probe after the candidate it stands at was fetched with response r.
Probed(p, r) ==
    LET u == patterns[p.type].urls[p.url]
        q == [p EXCEPT !.resp = r,
                   !.log = Append(p.log, [type |-> patterns[p.type].type, url |-> u,
                                          ok |-> accepted(r)])]
    IN  IF accepted(r)
        THEN NextType([q EXCEPT !.sources =
                           (patterns[p.type].type :> found_at(u, p.site)) @@ q.sources])
        ELSE IF p.url = Len(patterns[p.type].urls) THEN NextType(q)
        ELSE [q EXCEPT !.url = p.url + 1]

\* The call is entered: without a vendor website it returns the empty map at once.
FindSources ==
    /\ probe.pc = "called"
    /\ probe' = IF probe.site = "unknown" THEN [probe EXCEPT !.pc = "done"]
                ELSE [probe EXCEPT !.pc = "probing", !.type = 1, !.url = 1,
                                   !.sources = (patterns[1].type :> not_found)]
    /\ UNCHANGED <<cfgVars, keyVars, race, dirExists, localFiles, gcsBlobs, now, last>>

\* content, source_label = self._fetch_url_safely(url), and what the loop does with it.
FetchCandidate ==
    /\ probe.pc = "probing"
    /\ \E r \in Responses : probe' = Probed(probe, r)
    /\ UNCHANGED <<cfgVars, keyVars, race, dirExists, localFiles, gcsBlobs, now, last>>

\* sources['cisa_kev'] = self._check_cisa_kev(vendor_name, product_name); return sources
CheckKev ==
    /\ probe.pc = "kev"
    /\ \E r \in KevResponses :
          probe' = [probe EXCEPT !.pc = "done",
                                 !.log = Append(probe.log, [type |-> "cisa_kev", url |-> kev_url,
                                                            ok |-> r = "match"]),
                                 !.sources = ("cisa_kev" :> _check_cisa_kev(r)) @@ probe.sources]
    /\ UNCHANGED <<cfgVars, keyVars, race, dirExists, localFiles, gcsBlobs, now, last>>

\* 'evidence_quality': self._assess_evidence_quality(sources)
AssessEvidence ==
    /\ probe.pc = "done"
    /\ probe' = [probe EXCEPT !.pc = "assessed",
                              !.quality = _assess_evidence_quality(probe.sources)]
    /\ UNCHANGED <<cfgVars, keyVars, race, dirExists, localFiles, gcsBlobs, now, last>>

\* Entries in the sources maps handed to _assess_evidence_quality directly.
MaxGiven == 3

\* The entries such a map may hold: found or not, with either label, none, or
\* no 'found' key at all.
GivenEntries ==
    { [found |-> TRUE, source_label |-> "independent"],
      [found |-> TRUE, source_label |-> "vendor-stated"],
      [found |-> TRUE, source_label |-> NONE],
      [found |-> FALSE, source_label |-> NONE],
      [source_label |-> "independent"] }

GivenTypes == <<"security_page", "terms_of_service", "privacy_policy", "psirt_page", "cisa_kev", "other">>

GivenMaps == UNION {[{GivenTypes[i] : i \in 1..n} -> GivenEntries] : n \in 0..MaxGiven}

\* _find_high_signal_sources is called for a vendor website (on a vendor or an
\* independent host, or 'Unknown'), or a sources map is handed to
\* _assess_evidence_quality as it is.
InitSources ==
    /\ Constructed(FALSE, [use_gcs |-> FALSE, bucket_name |-> NONE, client |-> "not called"])
    /\ race = NoRace
    /\ \/ \E site \in {"unknown", "vendor", "independent"} :
             probe = [NoProbe EXCEPT !.pc = "called", !.site = site]
       \/ \E m \in GivenMaps :
             probe = [NoProbe EXCEPT !.pc = "done", !.sources = m, !.given = TRUE]
    /\ dirExists = TRUE
    /\ localFiles = [k \in Keys |-> Absent]
    /\ gcsBlobs = [k \in Keys |-> Absent]
    /\ now = 0
    /\ last = [op |-> "__init__", key |-> NoKey, arg |-> None, prior |-> None,
               fault |-> "none", at |-> 0, backend |-> "none", ret |-> None]
    /\ keyIn = <<>>
    /\ keyOut = NotCalled

NextSources ==
    \/ FindSources
    \/ FetchCandidate
    \/ CheckKev
    \/ AssessEvidence

SpecSources == InitSources /\ [][NextSources]_vars

----------------------------------------------------------------------------
(* EntityResolver.resolve and the pipeline built on it *)

\* The inputs handed to the pipeline: one product under two spellings.
ResolveInputs == {<<"a">>, <<"A">>}

\* cache_key = self._get_cache_key(user_input)
KeyOf == [i \in ResolveInputs |-> _get_cache_key(i)]
ResolveKeys == {KeyOf[i] : i \in ResolveInputs}

\* Confidences are counted in tenths: 0.5 and 1.0.
Half == 5
One == 10

\* A page no candidate URL accepts, and one every candidate accepts.
NoPage == [content |-> FALSE, len |-> 0, at404 |-> 0]
GoodPage == [content |-> TRUE, len |-> MinContent + 1, at404 |-> 0]

\* What the collaborators bring back during one resolution: whether the LLM
\* call returned JSON (ok), whether that JSON has a 'confidence' (has) and its
\* value, whether it names a vendor website (site), what every candidate URL
\* serves (page) and what the KEV catalog says (kev).
Worlds ==
    {w \in [ok : BOOLEAN, has : BOOLEAN, conf : {0, Half - 1, Half},
            site : {"unknown", "vendor"}, page : {NoPage, GoodPage},
            kev : {"no match", "match"}] :
        /\ ~w.ok => (~w.has /\ w.site = "unknown")
        /\ w.conf = 0 <=> ~w.has
        /\ (w.ok /\ w.conf < Half) => w.site = "vendor"
        /\ (w.conf < Half \/ w.site = "unknown") => w.page = NoPage
        /\ (w.kev = "match") <=> (w.page = GoodPage)}

\* The entity dict: the LLM's JSON, or the fallback with confidence 0.0 and the
\* website 'Unknown' (the inputs are not URLs) when the call or the parse failed.
_resolve_entity_with_gemini(w) ==
    IF w.ok THEN [has |-> w.has, conf |-> w.conf, site |-> w.site]
    ELSE [has |-> TRUE, conf |-> 0, site |-> "unknown"]

\* entity.get('confidence', 0)
entity_confidence(entity) == IF entity.has THEN entity.conf ELSE 0

\* The probe run to its KEV check with the same response at every candidate.
RECURSIVE RunProbe(_, _)
RunProbe(p, r) == IF p.pc = "probing" THEN RunProbe(Probed(p, r), r) ELSE p

\* The sources map _find_high_signal_sources returns.
_find_high_signal_sources(site, r, kev) ==
    IF site = "unknown" THEN <<>>
    ELSE ("cisa_kev" :> _check_cisa_kev(kev))
         @@ RunProbe([NoProbe EXCEPT !.pc = "probing", !.site = site, !.type = 1, !.url = 1,
                                     !.sources = (patterns[1].type :> not_found)], r).sources

\* Steps 1 and 2 of resolve in the world w: the entity, the sources (fetched
\* only for a confidence of 0.5 or more), their evidence quality, and whether
\* anything was fetched over HTTP.
Resolution(w) ==
    LET entity == _resolve_entity_with_gemini(w)
        fetch == entity_confidence(entity) >= Half
        sources == IF fetch THEN _find_high_signal_sources(entity.site, w.page, w.kev)
                   ELSE <<>>
    IN  [entity |-> entity, sources |-> sources,
         evidence_quality |-> _assess_evidence_quality(sources),
         http |-> fetch /\ entity.site # "unknown"]

\* What steps 1 and 2 may come to.
Resolutions == {Resolution(w) : w \in Worlds}

\* The result dict resolve builds after a fresh resolution at time h.  Of the
\* nested dicts the record keeps what the claims read: the website and the
\* confidence of the entity, the size of the sources map, the grade and the
\* sources_found of the evidence quality.
ResolveDoc(input, r, h) ==
    ( "input" :> PyStr(input[1])
   @@ "resolution" :> [t |-> "dict", s |-> r.entity.site, n |-> entity_confidence(r.entity)]
   @@ "sources" :> [t |-> "dict", s |-> IF DOMAIN r.sources = {} THEN "{}" ELSE "probed",
                    n |-> Cardinality(DOMAIN r.sources)]
   @@ "evidence_quality" :> [t |-> "dict", s |-> r.evidence_quality.quality,
                             n |-> r.evidence_quality.sources_found]
   @@ "resolved_at" :> isoformat(h)
   @@ "cache_key" :> PyStr("hexdigest[:16]") )

\* if cached: a dict is true unless it is empty.
Truthy(r) == r.kind = "dict" /\ DOMAIN r.d # {}

\* [files, ret, llm, http] of the resolution steps of resolve, from the call of
\* the LLM to the save.
FreshOutcome(files, dirOk, input, h, wfault, r) ==
    LET result == Stamp(ResolveDoc(input, r, h), h)
    IN  [files |-> SaveFiles(files, dirOk, KeyOf[input], result, wfault),
         ret |-> Dict(result), llm |-> 1, http |-> r.http]

\* resolve that never looks at what _load_from_cache returned.
ResolveOutcomeAlwaysFresh(files, dirOk, input, force, h, fault, wfault, r) ==
    LET cached == IF force THEN None ELSE LoadResult(files, KeyOf[input], h, fault)
    IN  IF cached.kind = "raise"
        THEN [files |-> files, ret |-> cached, llm |-> 0, http |-> FALSE]
        ELSE FreshOutcome(files, dirOk, input, h, wfault, r)

\* resolve that looks into the cache whatever force_refresh says.
ResolveOutcomeForceIgnored(files, dirOk, input, force, h, fault, wfault, r) ==
    LET cached == LoadResult(files, KeyOf[input], h, fault)
    IN  IF cached.kind = "raise"
        THEN [files |-> files, ret |-> cached, llm |-> 0, http |-> FALSE]
        ELSE IF Truthy(cached)
        THEN [files |-> files, ret |-> cached, llm |-> 0, http |-> FALSE]
        ELSE FreshOutcome(files, dirOk, input, h, wfault, r)

\* [files, ret, llm, http]: the files after resolve(input, force_refresh), what
\* it returned, the LLM calls it made and whether it fetched over HTTP.
\* _save_to_cache stamps the dict that resolve then returns.
ResolveOutcome(files, dirOk, input, force, h, fault, wfault, r) ==
    LET cached == IF force THEN None ELSE LoadResult(files, KeyOf[input], h, fault)
    IN  IF cached.kind = "raise"
        THEN [files |-> files, ret |-> cached, llm |-> 0, http |-> FALSE]
        ELSE IF Truthy(cached)
        THEN [files |-> files, ret |-> cached, llm |-> 0, http |-> FALSE]
        ELSE FreshOutcome(files, dirOk, input, h, wfault, r)

\* What was under the key when the call was made: the kind of blob and, for a
\* record, its cached_at (ISO-8601 text, missing, or something else) and its age
\* in clock readings (counted from 2000-01-01 without a cached_at).
BlobSeen(files, k, h) ==
    [kind |-> "blob", was |-> files[k].kind,
     stamp |-> IF files[k].kind # "json" THEN "none"
               ELSE IF "cached_at" \notin DOMAIN files[k].obj THEN "missing"
               ELSE IF files[k].obj["cached_at"].j = "string"
                       /\ files[k].obj["cached_at"].s = "iso8601" THEN "iso8601"
               ELSE "invalid",
     age |-> IF files[k].kind # "json" THEN 0
             ELSE IF "cached_at" \in DOMAIN files[k].obj
             THEN h - files[k].obj["cached_at"].n
             ELSE h - Year2000 * TicksPerDay]

PipelineCall(op, input, force, fault, wfault, o) ==
    [op |-> op, key |-> KeyOf[input],
     arg |-> [kind |-> "calls", force |-> force, wfault |-> wfault, llm |-> o.llm, http |-> o.http],
     prior |-> BlobSeen(localFiles, KeyOf[input], now),
     fault |-> fault, at |-> now, backend |-> "local", ret |-> o.ret]

\* The faults a call may meet: reading the record and writing the new one.
ReadFaults(k) == IF localFiles[k] = Absent THEN {"none", "stat"} ELSE {"none", "stat", "read"}
WriteFaults == {"none", "open", "write"}

resolve(input, force) ==
    \E fault \in ReadFaults(KeyOf[input]), wfault \in WriteFaults, r \in Resolutions :
        LET o == ResolveOutcome(localFiles, dirExists, input, force, now, fault, wfault, r)
        IN  /\ localFiles' = o.files
            /\ last' = PipelineCall("resolve", input, force, fault, wfault, o)
            /\ UNCHANGED <<cfgVars, keyVars, race, probe, dirExists, gcsBlobs, now>>

----------------------------------------------------------------------------
(* TaxonomyClassifier.classify *)

\* The fields _validate_classification requires, and those classify prints
\* after the validation with classification[...].
RequiredFields == {"primary_category", "primary_subcategory", "confidence", "reasoning",
                   "evidence_basis"}
PrintedFields == {"deployment_model", "data_access_level"}

valid_basis == {"vendor-stated", "mixed", "independent", "insufficient"}

\* What the classification call of the LLM brings back: an exception, text
\* that is not JSON, or a JSON object lacking some fields, with its confidence
\* (in tenths) and its evidence_basis.
ClassifyAnswers ==
    {a \in [kind : {"raises", "text", "json"},
            missing : {{}} \cup {{f} : f \in RequiredFields \cup PrintedFields},
            confidence : {-1, 0, Half, One, One + 1},
            evidence_basis : {"mixed", "other"}] :
        /\ a.kind # "json" => (a.missing = {} /\ a.confidence = 0 /\ a.evidence_basis = "mixed")
        /\ a.missing # {} => (a.confidence = Half /\ a.evidence_basis = "mixed")}

\* The classification classify returns without asking the LLM, and
\* _fallback_classification: both 'Unknown', confidence 0.0, 'insufficient'.
Classification(category, subcategory, confidence, basis, error) ==
    [kind |-> "classification", primary_category |-> category,
     primary_subcategory |-> subcategory, confidence |-> confidence,
     evidence_basis |-> basis, error |-> error]

too_low_classification == Classification("Unknown", "Unknown", 0, "insufficient", FALSE)
_fallback_classification == Classification("Unknown", "Unclassified", 0, "insufficient", TRUE)

\* _validate_classification without the range check on confidence.
ValidateClassificationAnyConfidence(a) ==
    IF a.missing \cap RequiredFields # {} THEN [raises |-> TRUE, evidence_basis |-> a.evidence_basis]
    ELSE [raises |-> FALSE,
          evidence_basis |-> IF a.evidence_basis \in valid_basis THEN a.evidence_basis
                             ELSE "insufficient"]

\* [raises, evidence_basis]: ValueError for a missing required field or a
\* confidence outside 0..1; an unknown evidence_basis is replaced.
_validate_classification(a) ==
    IF a.missing \cap RequiredFields # {} THEN [raises |-> TRUE, evidence_basis |-> a.evidence_basis]
    ELSE IF ~(0 <= a.confidence /\ a.confidence <= One)
    THEN [raises |-> TRUE, evidence_basis |-> a.evidence_basis]
    ELSE [raises |-> FALSE,
          evidence_basis |-> IF a.evidence_basis \in valid_basis THEN a.evidence_basis
                             ELSE "insufficient"]

\* classify asking the LLM whatever the confidence of the entity.
ClassifyResultUngated(confidence, a) ==
    LET v == _validate_classification(a)
    IN  IF a.kind # "json" THEN [doc |-> _fallback_classification, llm |-> 1]
        ELSE IF v.raises \/ a.missing \cap PrintedFields # {}
        THEN [doc |-> _fallback_classification, llm |-> 1]
        ELSE [doc |-> Classification("llm", "llm", a.confidence, v.evidence_basis, FALSE),
              llm |-> 1]

\* [doc, llm]: what classify returns for an entity of the given confidence
\* when the LLM answers a, and the LLM calls it made.  Every exception raised
\* after the prompt was built, the KeyError of a print included, ends in the
\* fallback.
ClassifyResult(confidence, a) ==
    LET v == _validate_classification(a)
    IN  IF confidence < Half THEN [doc |-> too_low_classification, llm |-> 0]
        ELSE IF a.kind # "json" THEN [doc |-> _fallback_classification, llm |-> 1]
        ELSE IF v.raises \/ a.missing \cap PrintedFields # {}
        THEN [doc |-> _fallback_classification, llm |-> 1]
        ELSE [doc |-> Classification("llm", "llm", a.confidence, v.evidence_basis, FALSE),
              llm |-> 1]

\* self.classifier.classify(entity_result['resolution'], entity_result['sources'])
\* on what resolve has just returned.
classify ==
    /\ last.op = "resolve"
    /\ last.ret.kind = "dict"
    /\ \E a \in ClassifyAnswers :
          LET confidence == last.ret.d["resolution"].n
              c == ClassifyResult(confidence, a)
          IN  last' = [op |-> "classify", key |-> last.key,
                       arg |-> [kind |-> "classify", confidence |-> confidence, answer |-> a,
                                llm |-> c.llm],
                       prior |-> None, fault |-> "none", at |-> now, backend |-> "none",
                       ret |-> c.doc]
    /\ UNCHANGED <<cfgVars, keyVars, race, probe, dirExists, localFiles, gcsBlobs, now>>

----------------------------------------------------------------------------
(* resolve_and_classify and assess_with_alternatives *)

\* EntityResolver defines no attribute `cache`: self.resolver.cache raises.
NoCacheAttribute == Raise("AttributeError")

\* [files, ret, llm, http] of resolve_and_classify: the classification is added
\* to what resolve returned (the LLM is asked for it when the confidence of the
\* entity is 0.5 or more), then _save_enhanced_cache reaches for
\* self.resolver.cache, outside any try block, the cache_key being non-empty.
ClassifyOutcome(files, dirOk, input, force, h, fault, wfault, r) ==
    LET e == ResolveOutcome(files, dirOk, input, force, h, fault, wfault, r)
        asked == IF e.ret.kind = "dict" /\ e.ret.d["resolution"].n >= Half THEN 1 ELSE 0
    IN  IF e.ret.kind = "raise" THEN e
        ELSE IF e.ret.d["cache_key"].s # ""
        THEN [e EXCEPT !.ret = NoCacheAttribute, !.llm = e.llm + asked]
        ELSE [e EXCEPT !.ret = Dict(e.ret.d @@ ("classification" :> PyDict("category"))),
                       !.llm = e.llm + asked]

resolve_and_classify(input, force) ==
    \E fault \in ReadFaults(KeyOf[input]), wfault \in WriteFaults, r \in Resolutions :
        LET o == ClassifyOutcome(localFiles, dirExists, input, force, now, fault, wfault, r)
        IN  /\ localFiles' = o.files
            /\ last' = PipelineCall("resolve_and_classify", input, force, fault, wfault, o)
            /\ UNCHANGED <<cfgVars, keyVars, race, probe, dirExists, gcsBlobs, now>>

\* [files, ret, llm, http] of assess_with_alternatives: an exception out of
\* resolve_and_classify propagates; otherwise the alternatives are added and
\* _save_complete_cache reaches for self.resolver.resolver.cache, outside its
\* try block.
AssessOutcome(files, dirOk, input, force, h, fault, wfault, r) ==
    LET c == ClassifyOutcome(files, dirOk, input, force, h, fault, wfault, r)
    IN  IF c.ret.kind = "raise" THEN c
        ELSE IF c.ret.d["cache_key"].s # ""
        THEN [c EXCEPT !.ret = NoCacheAttribute, !.llm = c.llm + 1]
        ELSE [c EXCEPT !.ret = Dict(c.ret.d @@ ("alternatives" :> PyDict("alternatives"))),
                       !.llm = c.llm + 1]

assess_with_alternatives(input, force) ==
    \E fault \in ReadFaults(KeyOf[input]), wfault \in WriteFaults, r \in Resolutions :
        LET o == AssessOutcome(localFiles, dirExists, input, force, now, fault, wfault, r)
        IN  /\ localFiles' = o.files
            /\ last' = PipelineCall("assess_with_alternatives", input, force, fault, wfault, o)
            /\ UNCHANGED <<cfgVars, keyVars, race, probe, dirExists, gcsBlobs, now>>

\* A record resolve stored long enough ago to be stale at clock reading 0.
StaleAge == (CACHE_TTL_DAYS + 1) * TicksPerDay
OldDoc ==
    ResolveDoc(<<"a">>,
               Resolution([ok |-> TRUE, has |-> TRUE, conf |-> Half, site |-> "unknown",
                           page |-> NoPage, kev |-> "no match"]),
               -StaleAge)
OldRecord == JsonBlob(json_dumps(Stamp(OldDoc, -StaleAge)))

\* Records found in the directory that did not come from _save_to_cache as it
\* is now: one without cached_at, one whose cached_at is not a timestamp.
NoStampRecord == JsonBlob(json_dumps(OldDoc))
BadStampRecord == JsonBlob(json_dumps(OldDoc @@ ("cached_at" :> PyStr("not a timestamp"))))

\* The resolver over its cache directory, empty or holding one of these records.
InitResolve ==
    /\ Constructed(FALSE, [use_gcs |-> FALSE, bucket_name |-> NONE, client |-> "not called"])
    /\ race = NoRace
    /\ probe = NoProbe
    /\ dirExists = TRUE
    /\ \E blob \in {Absent, OldRecord, NoStampRecord, BadStampRecord} :
          localFiles = [k \in ResolveKeys |-> blob]
    /\ gcsBlobs = [k \in Keys |-> Absent]
    /\ now = 0
    /\ last = [op |-> "__init__", key |-> NoKey, arg |-> None, prior |-> None,
               fault |-> "none", at |-> 0, backend |-> "none", ret |-> None]
    /\ keyIn = <<>>
    /\ keyOut = NotCalled

NextResolve ==
    \/ \E i \in ResolveInputs, force \in BOOLEAN : resolve(i, force)
    \/ Advance(MaxClock)

SpecResolve == InitResolve /\ [][NextResolve]_vars

NextClassify ==
    \/ \E i \in ResolveInputs, force \in BOOLEAN : resolve(i, force)
    \/ classify
    \/ Advance(MaxClock)

SpecClassify == InitResolve /\ [][NextClassify]_vars

NextAssess ==
    \/ \E i \in ResolveInputs, force \in BOOLEAN : resolve_and_classify(i, force)
    \/ \E i \in ResolveInputs, force \in BOOLEAN : assess_with_alternatives(i, force)
    \/ Advance(MaxClock)

SpecAssess == InitResolve /\ [][NextAssess]_vars

\* The pipeline next to a Cache Manager, bound to the local directory or to
\* the bucket "b"; both stores are empty.
InitOrchestrator ==
    /\ \E a \in {[use_gcs |-> FALSE, bucket_name |-> NONE, client |-> "not called"],
                 [use_gcs |-> TRUE, bucket_name |-> "b", client |-> "ok"]} :
          Constructed(TRUE, a)
    /\ race = NoRace
    /\ probe = NoProbe
    /\ dirExists = TRUE
    /\ localFiles = [k \in ResolveKeys |-> Absent]
    /\ gcsBlobs = [k \in ResolveKeys |-> Absent]
    /\ now = 0
    /\ last = [op |-> "__init__", key |-> NoKey, arg |-> None, prior |-> None,
               fault |-> "none", at |-> 0, backend |-> "none", ret |-> None]
    /\ keyIn = <<>>
    /\ keyOut = NotCalled

NextOrchestrator ==
    \/ \E force \in BOOLEAN : resolve(<<"a">>, force)
    \/ \E force \in BOOLEAN : resolve_and_classify(<<"a">>, force)
    \/ \E force \in BOOLEAN : assess_with_alternatives(<<"a">>, force)

SpecOrchestrator == InitOrchestrator /\ [][NextOrchestrator]_vars

----------------------------------------------------------------------------
(* Claims *)

\* The store the call in `last` was dispatched to.
StoreOf(backend) == IF backend = "gcs" THEN gcsBlobs ELSE localFiles

SameExceptCachedAt(d, r) ==
    /\ DOMAIN d \ {"cached_at"} = DOMAIN r \ {"cached_at"}
    /\ \A f \in DOMAIN d \ {"cached_at"} : r[f] = d[f]

\* A document built only of values JSON has itself: str, list, number.
JsonNative(d) == \A f \in DOMAIN d : d[f].t \in {"str", "list", "dict", "int"}

\* A get(k) that met no storage fault and directly follows a successful set(k, d).
GetAfterSet == last.op = "get" /\ last.prior.kind = "set" /\ last.fault = "none"

C2_StampIsClockAtCall ==
    (last.op = "set" /\ last.ret = Bool(TRUE)) =>
        LET blob == StoreOf(last.backend)[last.key]
        IN  /\ blob.kind = "json"
            /\ "cached_at" \in DOMAIN blob.obj
            /\ json_loads(blob.obj)["cached_at"] = isoformat(last.at)

\* A set at clock reading 1 of a document that came with its own cached_at.
C2_Witness ==
    /\ last.op = "set" /\ last.ret = Bool(TRUE)
    /\ last.arg.d = DocStamped
    /\ last.at = 1
    /\ DocStamped["cached_at"] # isoformat(last.at)

\* C3: in every state reached from the empty store by the program's cache writes
\* (CacheManager.set and the resolver's _save_to_cache), every stored record, that
\* is every blob that parses, carries a cached_at field.
C3_EveryRecordHasCachedAt ==
    \A k \in Keys :
        /\ localFiles[k].kind = "json" => "cached_at" \in DOMAIN localFiles[k].obj
        /\ gcsBlobs[k].kind = "json" => "cached_at" \in DOMAIN gcsBlobs[k].obj

\* A record written by the resolver next to one written by the manager.
C3_Witness ==
    /\ last.op = "_save_to_cache"
    /\ localFiles[Key1].kind = "json"
    /\ gcsBlobs[Key2].kind = "json"

\* The key of the current input has been derived.
KeyDerived == keyOut # NotCalled

\* Two inputs equal after lower-casing and stripping get the same key.
SameNormalizedSameKey ==
    \A x \in Texts(MaxLen) :
        str_strip(str_lower(x)) = str_strip(str_lower(keyIn)) => _get_cache_key(x) = keyOut

\* C4 as stated: for every input s, derive_key(s) = derive_key(s.upper()) and
\* derive_key(s) = derive_key(" " + s + " "), and inputs equal after lower-casing
\* and stripping get the same key.
C4_InsensitiveForEveryInput ==
    KeyDerived =>
        /\ keyOut = _get_cache_key(str_upper(keyIn))
        /\ keyOut = _get_cache_key(<<" ">> \o keyIn \o <<" ">>)
        /\ SameNormalizedSameKey

\* C4 amended: the key ignores surrounding blanks for every input, and ignores
\* case for every input whose upper-casing lower-cases back to s.lower() (U+00DF
\* does not: its upper() is "SS"); inputs equal after lower-casing and stripping
\* get the same key.
C4_InsensitiveWhereCaseRoundTrips ==
    KeyDerived =>
        /\ str_lower(str_upper(keyIn)) = str_lower(keyIn)
               => keyOut = _get_cache_key(str_upper(keyIn))
        /\ keyOut = _get_cache_key(<<" ">> \o keyIn \o <<" ">>)
        /\ SameNormalizedSameKey

\* The key of " aA": the key of "aa", of " AA" and of "  aA ".
C4_Witness ==
    /\ KeyDerived
    /\ keyIn = <<" ", "a", "A">>
    /\ keyOut = _get_cache_key(<<"a", "a">>)
    /\ str_upper(keyIn) = <<" ", "A", "A">>

HexChars == {"0", "1", "2", "3", "4", "5", "6", "7", "8", "9", "a", "b", "c", "d", "e", "f"}

StaleChecked ==
    /\ last.op = "_load_from_cache"
    /\ last.fault = "none"
    /\ localFiles[last.key].kind = "json"
    /\ "cached_at" \in DOMAIN localFiles[last.key].obj

\* now - cached_at at that call, in clock readings.
Elapsed == last.at - localFiles[last.key].obj["cached_at"].n

\* C6 as stated: the record is usable if and only if now - cached_at is at most
\* ttl_days days, for every elapsed time.
C6_UsableIffWithinTtl ==
    StaleChecked => ((last.ret.kind = "dict") <=> (Elapsed <= CACHE_TTL_DAYS * TicksPerDay))

\* What _load_from_cache does instead: a record is usable if and only if the whole
\* days elapsed are at most ttl_days, that is, now - cached_at is less than
\* ttl_days + 1 days.
UsableIffWholeDaysWithinTtl ==
    StaleChecked => ((last.ret.kind = "dict") <=> (Elapsed < (CACHE_TTL_DAYS + 1) * TicksPerDay))

\* A record older than seven days and younger than eight is served.
C6_Witness ==
    /\ StaleChecked
    /\ Elapsed = CACHE_TTL_DAYS * TicksPerDay + 1
    /\ last.ret = Dict(json_loads(localFiles[last.key].obj))

ManagerOps == {"get", "set", "list_keys", "delete", "clear_all", "get_storage_info"}

\* use_gcs=True was asked for and the library is missing, or no bucket name was
\* given, or storage.Client() raised.
Degraded ==
    /\ ctor.use_gcs
    /\ ~GCS_AVAILABLE \/ ctor.bucket_name \in {NONE, ""} \/ ctor.client = "raises"

\* C7: a manager constructed with use_gcs=True under any of the three conditions
\* is bound to the local backend: get_storage_info says 'local', its calls go to
\* the local directory, and a set or get that meets no fault succeeds there.  It
\* is bound to the bucket only when none of the three holds.
C7_DegradeNotFail ==
    /\ Degraded =>
        /\ ~use_gcs
        /\ StorageInfo.storage_type = "local"
        /\ last.op \in ManagerOps => last.backend = "local"
        /\ (last.op = "set" /\ last.fault = "none" /\ dirExists
                /\ Serializable(last.arg.d)) =>
               /\ last.ret = Bool(TRUE)
               /\ localFiles[last.key].kind = "json"
        /\ (GetAfterSet /\ JsonNative(last.prior.d)) => last.ret.kind = "dict"
    /\ use_gcs =>
        /\ ctor.use_gcs /\ GCS_AVAILABLE
        /\ ctor.bucket_name \notin {NONE, ""}
        /\ ctor.client = "ok"

\* Asked for GCS without a bucket name: a set and the get after it worked locally.
C7_Witness ==
    /\ ctor.use_gcs /\ GCS_AVAILABLE /\ ctor.bucket_name = NONE
    /\ GetAfterSet
    /\ last.backend = "local"
    /\ last.ret.kind = "dict"

\* C8: whatever calls were made, failed ones included, the manager still uses the
\* backend __init__ bound, and get_storage_info names the backend the calls use.
C8_BackendFixedAtConstruction ==
    /\ use_gcs = InitUseGcs(GCS_AVAILABLE, ctor)
    /\ bucket = InitBucket(GCS_AVAILABLE, ctor)
    /\ last.op \in ManagerOps => last.backend = StorageInfo.storage_type
    /\ last.op = "get_storage_info" =>
           last.ret.storage_type = IF InitUseGcs(GCS_AVAILABLE, ctor) THEN "gcs" ELSE "local"

\* A call against the bucket failed and went to the bucket all the same.
C8_Witness ==
    /\ use_gcs
    /\ last.op \in {"get", "set", "delete"}
    /\ last.fault # "none"
    /\ last.backend = "gcs"

\* C9: a get of a key whose blob exists and does not parse returns None, as for an
\* absent key, and leaves the blob in place.
C9_CorruptIsMiss ==
    [][\A k \in Keys :
          (/\ last' # last
           /\ last'.op = "get" /\ last'.key = k
           /\ last'.fault # "stat"
           /\ StoreOf(Dispatch)[k] = Garbage)
          => /\ last'.ret = None
             /\ localFiles'[k] = localFiles[k]
             /\ gcsBlobs'[k] = gcsBlobs[k]]_vars

\* A get found unparsable bytes, returned None, and the bytes are still there.
C9_Witness ==
    /\ last.op = "get" /\ last.fault = "none"
    /\ StoreOf(last.backend)[last.key] = Garbage
    /\ last.ret = None

\* C10 as stated: no call of the manager lets an exception out; a call that met a
\* storage failure returns its failure value.
C10_NeverRaises ==
    /\ last.ret.kind # "raise"
    /\ (last.op \in ManagerOps /\ last.fault # "none") =>
           CASE last.op = "get" -> last.ret = None
             [] last.op = "set" -> last.ret = Bool(FALSE)
             [] last.op = "delete" -> last.ret = Bool(FALSE)
             [] last.op = "list_keys" -> last.ret = KeyList({})
             [] last.op = "clear_all" -> last.ret.kind = "int"
             [] OTHER -> TRUE

\* A get on the local directory whose exists() failed: the OSError came out.
C10_Witness ==
    /\ last.op = "get" /\ last.backend = "local"
    /\ last.fault = "stat"
    /\ last.ret = Raise("OSError")

\* C11: on either backend a delete(k) that meets no storage fault returns True
\* exactly when k was present and leaves k absent; a second delete(k) in a row
\* returns False and does not raise, so the pair is (True, False) or
\* (False, False); a get(k) right after the delete returns None.  A delete whose
\* storage step fails returns False and removes nothing.
C11_DeleteIdempotent ==
    /\ last.op = "delete" =>
        /\ last.ret.kind = "bool"
        /\ last.fault = "none" =>
            /\ last.ret = Bool(last.prior.had)
            /\ StoreOf(last.backend)[last.key] = Absent
            /\ last.prior.first # None =>
                /\ last.ret = Bool(FALSE)
                /\ last.prior.first \in {Bool(TRUE), Bool(FALSE)}
        /\ last.fault # "none" =>
            /\ last.ret = Bool(FALSE)
            /\ (StoreOf(last.backend)[last.key] # Absent) = last.prior.had
    /\ (last.op = "get" /\ last.prior.kind = "delete" /\ last.fault = "none") =>
           last.ret = None

\* The second delete of a key in the bucket that the first one removed.
C11_Witness ==
    /\ last.op = "delete" /\ last.backend = "gcs"
    /\ last.prior.first = Bool(TRUE)
    /\ last.ret = Bool(FALSE)

\* C12: whatever the store holds, a clear_all that meets no failure, immediately
\* followed by list_keys, returns an empty collection.
C12_ClearThenListIsEmpty ==
    (last.op = "list_keys" /\ last.prior.kind = "clear") => last.ret = KeyList({})

\* list_keys right after a clear_all that removed two entries.
C12_Witness ==
    /\ last.op = "list_keys" /\ last.fault = "none"
    /\ last.prior = [kind |-> "clear", n |-> 2]
    /\ last.ret = KeyList({})

\* The entries a clear_all removed: those present before and absent after.
Removed == last.prior.n - Cardinality(Present(StoreOf(last.backend)))

\* C13 as stated: on both backends clear_all returns exactly the number of
\* records it removed, and when the listing worked every record whose delete did
\* not fail was removed.
C13_ClearCountsRemoved ==
    last.op = "clear_all" =>
        /\ last.ret = Count(Removed)
        /\ last.fault = "none" => Present(StoreOf(last.backend)) = last.arg.keys

\* In the bucket one blob was deleted, the delete of the next one failed, and
\* clear_all returned 0.
C13_Witness ==
    /\ last.op = "clear_all" /\ last.backend = "gcs"
    /\ last.arg.keys # {}
    /\ Removed = 1
    /\ last.ret = Count(0)

\* On the local directory the count is exact and a failed unlink is skipped.
ClearLocalCountsRemoved ==
    (last.op = "clear_all" /\ last.backend = "local") =>
        /\ last.ret = Count(Removed)
        /\ last.fault = "none" => Present(StoreOf(last.backend)) = last.arg.keys

BothReturned == \A w \in Writers : race.pc[w] = "returned"

\* C14 as stated: once two concurrent writes of the same key have both returned,
\* the file holds exactly the complete document of the writer that wrote last.
C14_LastWriteWins ==
    BothReturned => race.file = race.doc[race.lastw]

\* Both writes returned and the file is the first piece of one document followed
\* by the second piece of the other.
C14_Witness ==
    /\ BothReturned
    /\ race.file = <<Chunk("B", 1), Chunk("A", 2)>>

\* Writes that do not overlap: when the second open comes after the first close,
\* the file ends as the second writer's document.
WholeDocumentWhileAlone ==
    \A w \in Writers :
        (race.pc[w] = "returned" /\ \A v \in Writers \ {w} : race.pc[v] = "called")
            => race.file = race.doc[w]

\* The keys under which a record is stored, in a store that holds records only.
Records(store) == {k \in Keys : store[k].kind = "json"}
OnlyRecords(store) == \A k \in Keys : store[k] # Garbage

\* C15 as stated: when the store holds nothing but the records that successful
\* set calls put there and delete and clear_all have not removed, list_keys
\* returns exactly the keys of those records.
C15_ListIsKeysPresent ==
    (last.op = "list_keys" /\ last.fault = "none" /\ OnlyRecords(StoreOf(last.backend)))
        => last.ret = KeyList(Records(StoreOf(last.backend)))

\* The bucket holds a record under the key k.jsonx and list_keys reports kx.
C15_Witness ==
    /\ last.op = "list_keys" /\ last.fault = "none" /\ last.backend = "gcs"
    /\ OnlyRecords(gcsBlobs)
    /\ Key2 \in Records(gcsBlobs)
    /\ Key2 \notin last.ret.keys
    /\ <<"k", "x">> \in last.ret.keys

\* On the local directory list_keys does return the keys present.
ListLocalIsKeysPresent ==
    (last.op = "list_keys" /\ last.fault = "none" /\ last.backend = "local"
        /\ OnlyRecords(localFiles))
        => last.ret = KeyList(Records(localFiles))

\* The calls after which the record under k may be gone or replaced: delete(k),
\* clear_all, and a set(k, .) that returned True.
MayReplace(call, k) ==
    \/ call.op = "delete" /\ call.key = k
    \/ call.op = "clear_all"
    \/ call.op = "set" /\ call.key = k /\ call.ret = Bool(TRUE)

\* C16 as stated: a stored record stays as it is across every call of the manager
\* other than delete(k), clear_all and a successful set(k, .); in particular a
\* set(k, .) that returns False leaves it intact.
C16_RecordSurvivesOtherCalls ==
    [][\A k \in Keys :
          (/\ StoreOf(Dispatch)[k].kind = "json"
           /\ last'.op \in ManagerOps
           /\ ~MayReplace(last', k))
          => /\ localFiles'[k] = localFiles[k]
             /\ gcsBlobs'[k] = gcsBlobs[k]]_vars

\* A set on the local directory returned False and the record that was stored
\* under the key is now unparsable.
C16_Witness ==
    /\ last.op = "set" /\ last.backend = "local"
    /\ last.ret = Bool(FALSE)
    /\ last.prior = Bool(TRUE)
    /\ localFiles[last.key] = Garbage

\* In the bucket a stored record does survive every other call.
RecordSurvivesInBucket ==
    [][\A k \in Keys :
          (/\ use_gcs
           /\ gcsBlobs[k].kind = "json"
           /\ last'.op \in ManagerOps
           /\ ~MayReplace(last', k))
          => gcsBlobs'[k] = gcsBlobs[k]]_vars

\* C20 as stated: a set on the local backend of a document json can write, with
\* no other storage fault, returns True and leaves the record in the cache
\* directory, which exists afterwards even if it did not exist at the call.
C20_SetCreatesDirectory ==
    (last.op = "set" /\ last.backend = "local" /\ last.fault = "none"
        /\ Serializable(last.arg.d))
        => /\ last.ret = Bool(TRUE)
           /\ dirExists
           /\ localFiles[last.key].kind = "json"

\* The directory was gone at the call: set returned False, nothing was stored and
\* the directory is still gone.
C20_Witness ==
    /\ last.op = "set" /\ last.backend = "local" /\ last.fault = "none"
    /\ Serializable(last.arg.d)
    /\ ~dirExists
    /\ last.ret = Bool(FALSE)
    /\ localFiles[last.key] = Absent

\* While the directory exists such a set does succeed.
SetSucceedsInExistingDirectory ==
    (last.op = "set" /\ last.backend = "local" /\ last.fault = "none"
        /\ Serializable(last.arg.d) /\ dirExists)
        => /\ last.ret = Bool(TRUE)
           /\ localFiles[last.key].kind = "json"

\* C19 as stated: run side by side from empty stores with no transport failure,
\* the two backends return the same value at every call (list_keys as a set).
C19_BackendsAgree ==
    last.backend = "both" => last.ret.local = last.ret.gcs

\* Both stores hold one record, under the key k.jsonx: the local list_keys
\* returns that key and the GCS list_keys returns kx.
C19_Witness ==
    /\ last.backend = "both" /\ last.op = "list_keys"
    /\ localFiles[Key2].kind = "json" /\ gcsBlobs[Key2] = localFiles[Key2]
    /\ last.ret.local = KeyList({Key2})
    /\ last.ret.gcs = KeyList({<<"k", "x">>})

\* Where the backends do agree: at every call but list_keys made while the two
\* stores hold the same blobs.
BackendsAgreeWhileInStep ==
    [][(last'.backend = "both" /\ last' # last /\ localFiles = gcsBlobs
            /\ last'.op # "list_keys")
          => last'.ret.local = last'.ret.gcs]_vars

\* The record under the key at the call was parsable and judged fresh.
FreshRecordSeen ==
    /\ last.prior.was = "json"
    /\ last.prior.stamp # "invalid"
    /\ timedelta_days(last.prior.age) <= CACHE_TTL_DAYS

\* C18: resolve(input, force_refresh=False) that meets no read fault returns the
\* stored record, with no LLM call and no HTTP fetch, when a parsable record
\* judged fresh is under derive_key(input); when the record is absent, corrupt
\* or stale it resolves afresh (one entity-resolution LLM call), returns the new
\* result and, the write meeting no fault, leaves it stored under the key with
\* cached_at at the time of the call.
C18_ReadUntilStale ==
    (last.op = "resolve" /\ ~last.arg.force /\ last.fault = "none") =>
        /\ FreshRecordSeen =>
            /\ last.ret = Dict(json_loads(localFiles[last.key].obj))
            /\ last.arg.llm = 0
            /\ ~last.arg.http
        /\ ~FreshRecordSeen =>
            /\ last.arg.llm = 1
            /\ last.ret.kind = "dict"
            /\ last.ret.d["resolved_at"] = isoformat(last.at)
            /\ (last.arg.wfault = "none" /\ dirExists) =>
                /\ localFiles[last.key] = JsonBlob(json_dumps(last.ret.d))
                /\ last.ret.d["cached_at"] = isoformat(last.at)

\* A lookup at clock reading 1 served the record resolved at reading 0.
C18_Witness ==
    /\ last.op = "resolve" /\ ~last.arg.force /\ last.fault = "none"
    /\ FreshRecordSeen
    /\ last.at = 1
    /\ last.ret.kind = "dict"
    /\ last.ret.d["resolved_at"] = isoformat(0)
    /\ last.arg.llm = 0

\* The stale record was looked up and replaced by a fresh resolution.
StaleRecordReplaced ==
    /\ last.op = "resolve" /\ ~last.arg.force /\ last.fault = "none"
    /\ last.prior.was = "json" /\ last.prior.age >= StaleAge
    /\ last.arg.llm = 1
    /\ localFiles[last.key] = JsonBlob(json_dumps(last.ret.d))

\* The parts of a complete assessment.
CompleteFields == {"resolution", "sources", "classification", "alternatives"}

\* C17 as stated: assess_with_alternatives, meeting no fault, returns the
\* assessment and leaves a record with the complete assessment stored under
\* derive_key(input).
C17_AssessmentStored ==
    (last.op = "assess_with_alternatives" /\ last.fault = "none"
        /\ last.arg.wfault = "none" /\ dirExists) =>
        /\ last.ret.kind = "dict"
        /\ CompleteFields \subseteq DOMAIN last.ret.d
        /\ localFiles[last.key].kind = "json"
        /\ CompleteFields \subseteq DOMAIN localFiles[last.key].obj

\* assess_with_alternatives ended in AttributeError; the record under the key is
\* the one resolve wrote, without classification and alternatives.
C17_Witness ==
    /\ last.op = "assess_with_alternatives" /\ last.fault = "none"
    /\ last.arg.wfault = "none" /\ dirExists
    /\ last.ret = NoCacheAttribute
    /\ localFiles[last.key].kind = "json"
    /\ DOMAIN localFiles[last.key].obj \cap {"classification", "alternatives"} = {}

\* _assess_evidence_quality has returned.
Graded == probe.pc = "assessed"

\* The entries of the graded map that count as found, and those among them
\* carrying a given label.
FoundIn(m) == {t \in DOMAIN m : "found" \in DOMAIN m[t] /\ m[t].found}
LabelledIn(m, label) == {t \in FoundIn(m) : m[t].source_label = label}

\* C26: for every sources map, with or without 'found' keys and labels,
\* _assess_evidence_quality returns the counts of the map and the grade
\* 'good' iff sources_found >= 3 and independent_sources >= 1, otherwise
\* 'moderate' iff sources_found >= 2, otherwise 'limited' iff sources_found = 1,
\* otherwise 'insufficient'; for a map _find_high_signal_sources produced,
\* sources_found <= sources_attempted and sources_found = independent_sources +
\* vendor_sources.
C26_EvidenceQualityGrades ==
    Graded =>
        LET q == probe.quality
            m == probe.sources
        IN  /\ q.sources_found = Cardinality(FoundIn(m))
            /\ q.sources_attempted = Cardinality(DOMAIN m)
            /\ q.independent_sources = Cardinality(LabelledIn(m, "independent"))
            /\ q.vendor_sources = Cardinality(LabelledIn(m, "vendor-stated"))
            /\ (q.quality = "good") <=> (q.sources_found >= 3 /\ q.independent_sources >= 1)
            /\ q.quality # "good" =>
                /\ (q.quality = "moderate") <=> (q.sources_found >= 2)
                /\ q.quality # "moderate" =>
                    /\ (q.quality = "limited") <=> (q.sources_found = 1)
                    /\ q.quality # "limited" => q.quality = "insufficient"
            /\ ~probe.given =>
                /\ q.sources_found <= q.sources_attempted
                /\ q.sources_found = q.independent_sources + q.vendor_sources

\* Four vendor pages and a KEV match were found by probing and graded 'good'.
C26_Witness ==
    /\ Graded /\ ~probe.given
    /\ probe.quality.quality = "good"
    /\ probe.quality.sources_found = 5
    /\ probe.quality.vendor_sources = 4
    /\ probe.quality.independent_sources = 1

\* Three found sources, none independent, are graded 'moderate'; for a map
\* with an unlabelled found entry the two label counts do not add up.
ThreeVendorSourcesAreModerate ==
    /\ Graded /\ probe.given
    /\ probe.quality.sources_found = 3
    /\ probe.quality.vendor_sources = 2
    /\ probe.quality.independent_sources = 0
    /\ probe.quality.quality = "moderate"

\* The fetches of one source type, in the order they were made.
TypeLog(t) == SelectSeq(probe.log, LAMBDA e : e.type = t)

\* The position of a source type in patterns; the KEV check counts as fifth.
TypeIndex(t) ==
    IF t = "cisa_kev" THEN Len(patterns) + 1
    ELSE CHOOSE i \in 1..Len(patterns) : patterns[i].type = t

\* A call of _find_high_signal_sources is under way or has returned.
Probing == probe.pc \in {"probing", "kev"} \/ (probe.pc \in {"done", "assessed"} /\ ~probe.given)

\* C29: the fetches are made type by type in the order of patterns; within a
\* type the candidates are fetched in their listed order, a candidate is
\* accepted exactly when its content has more than 500 characters and no '404'
\* within its first 1000, nothing of the type is fetched after an accepted
\* candidate, and the url recorded for the type is that candidate (none when
\* every candidate was rejected); the KEV catalog is fetched exactly once, as
\* the last fetch, once each of the four types has been accepted or exhausted,
\* and never before.
C29_SequentialFirstMatch ==
    Probing =>
        /\ \A i, j \in 1..Len(probe.log) :
              i < j => TypeIndex(probe.log[i].type) <= TypeIndex(probe.log[j].type)
        /\ \A n \in 1..Len(patterns) :
              LET t == patterns[n].type
                  l == TypeLog(t)
              IN  /\ Len(l) <= Len(patterns[n].urls)
                  /\ \A i \in 1..Len(l) : l[i].url = patterns[n].urls[i]
                  /\ \A i \in 1..Len(l) : l[i].ok => i = Len(l)
                  /\ (l # <<>> /\ l[Len(l)].ok) =>
                        /\ probe.sources[t].found
                        /\ probe.sources[t].url = l[Len(l)].url
                  /\ (t \in DOMAIN probe.sources /\ ~(l # <<>> /\ l[Len(l)].ok)) =>
                        /\ ~probe.sources[t].found
                        /\ probe.sources[t].url = NONE
        /\ (probe.log # <<>> /\ probe.log[Len(probe.log)].type # "cisa_kev") =>
              (probe.log[Len(probe.log)].ok <=>
                  /\ probe.resp.content
                  /\ probe.resp.len > 500
                  /\ ~(probe.resp.at404 >= 1 /\ probe.resp.at404 <= 998))
        /\ Len(TypeLog("cisa_kev")) = (IF probe.pc \in {"done", "assessed"} /\ probe.site # "unknown"
                                       THEN 1 ELSE 0)
        /\ TypeLog("cisa_kev") # <<>> =>
              /\ probe.log[Len(probe.log)].type = "cisa_kev"
              /\ \A n \in 1..Len(patterns) :
                    LET l == TypeLog(patterns[n].type)
                    IN  l # <<>> /\ (l[Len(l)].ok \/ Len(l) = Len(patterns[n].urls))

\* The security page was found at its second candidate, /trust: the third and
\* fourth were never fetched, and the KEV check came last.
C29_Witness ==
    /\ probe.pc = "done" /\ ~probe.given
    /\ TypeLog("security_page") =
           << [type |-> "security_page", url |-> "/security", ok |-> FALSE],
              [type |-> "security_page", url |-> "/trust", ok |-> TRUE] >>
    /\ probe.sources["security_page"].url = "/trust"
    /\ probe.log[Len(probe.log)].type = "cisa_kev"

\* C22 as stated: a list_keys on the bucket that meets no fault returns, for
\* exactly the blobs whose name ends in .json, the name without that suffix:
\* every returned key k has k + ".json" the name of an existing blob, and every
\* stored key is returned, keys containing the text ".json" included.
C22_ListedKeyNamesABlob ==
    (last.op = "list_keys" /\ last.backend = "gcs" /\ last.fault = "none") =>
        /\ \A k \in last.ret.keys :
              \E x \in Present(gcsBlobs) : Append(k, ".json") = BlobName(x)
        /\ \A x \in Present(gcsBlobs) :
              endswith_json(BlobName(x)) => stem(BlobName(x)) \in last.ret.keys

\* The bucket holds the blob k.jsonx.json; list_keys returned kx, and no blob
\* is named kx.json.
C22_Witness ==
    /\ last.op = "list_keys" /\ last.backend = "gcs" /\ last.fault = "none"
    /\ gcsBlobs[Key2] # Absent
    /\ <<"k", "x">> \in last.ret.keys
    /\ \A x \in Present(gcsBlobs) : BlobName(x) # <<"k", "x", ".json">>

\* For blobs whose key does not contain ".json" the returned key does name
\* the blob.
ListedKeyNamesABlobWithoutJsonInKey ==
    (last.op = "list_keys" /\ last.backend = "gcs" /\ last.fault = "none") =>
        \A x \in Present(gcsBlobs) :
            replace_json(x) = x => stem(BlobName(x)) \in last.ret.keys

\* C24: a call of get, list_keys or get_storage_info leaves the directory and
\* the bucket as they were; a call of set(k, d) or delete(k), successful or
\* not, leaves the blob of every other key as it was, on both stores.
C24_FrameConditions ==
    [][/\ last'.op \in {"get", "list_keys", "get_storage_info"} =>
            /\ localFiles' = localFiles
            /\ gcsBlobs' = gcsBlobs
            /\ dirExists' = dirExists
       /\ last'.op \in {"set", "delete"} =>
            \A k \in Keys \ {last'.key} :
                /\ localFiles'[k] = localFiles[k]
                /\ gcsBlobs'[k] = gcsBlobs[k]]_vars

\* delete(k1) removed its record and the record under the other key is still
\* there.
C24_Witness ==
    /\ last.op = "delete" /\ last.key = Key1
    /\ last.ret = Bool(TRUE)
    /\ StoreOf(last.backend)[Key1] = Absent
    /\ StoreOf(last.backend)[Key2].kind = "json"

\* C25: in every state after __init__, use_gcs holds only with a bucket handle,
\* so a call dispatched to GCS finds one; when use_gcs is False,
\* get_storage_info reports bucket_name as None, whatever name was given.
C25_GcsOnlyWithBucket ==
    /\ use_gcs => bucket # NONE
    /\ last.backend = "gcs" => bucket # NONE
    /\ ~use_gcs => StorageInfo.bucket_name = NONE
    /\ (last.op = "get_storage_info" /\ ~use_gcs) => last.ret.bucket_name = NONE

\* A manager asked to use the bucket "b" whose storage.Client() raised:
\* get_storage_info reports no bucket name.
C25_Witness ==
    /\ last.op = "get_storage_info"
    /\ ctor.use_gcs /\ bucket_name = "b" /\ ctor.client = "raises"
    /\ ~use_gcs /\ bucket = NONE
    /\ last.ret.bucket_name = NONE

\* C23: resolve(input, force_refresh=True) does not look at the stored record
\* (a failing exists() or open cannot reach it), makes the entity-resolution
\* call and returns the new result, resolved and stamped at the time of the
\* call; the write meeting no fault, that result is the record under
\* derive_key(input), whatever was there before.
C23_ForceRefreshSkipsCache ==
    (last.op = "resolve" /\ last.arg.force) =>
        /\ last.ret.kind = "dict"
        /\ last.arg.llm = 1
        /\ last.ret.d["resolved_at"] = isoformat(last.at)
        /\ last.ret.d["cached_at"] = isoformat(last.at)
        /\ (last.arg.wfault = "none" /\ dirExists) =>
              localFiles[last.key] = JsonBlob(json_dumps(last.ret.d))

\* A forced resolve at clock reading 1 found a fresh record resolved at
\* reading 0 and replaced it.
C23_Witness ==
    /\ last.op = "resolve" /\ last.arg.force
    /\ FreshRecordSeen /\ last.prior.stamp = "iso8601" /\ last.prior.age = 1
    /\ last.at = 1
    /\ localFiles[last.key].kind = "json"
    /\ localFiles[last.key].obj["cached_at"].n = 1

\* The record under the key at the call had no cached_at, or one that is not a
\* timestamp.
UnstampedRecordSeen ==
    /\ last.prior.was = "json"
    /\ last.prior.stamp \in {"missing", "invalid"}

\* C30: _load_from_cache returns None, without raising, for every stored
\* record that lacks cached_at or whose cached_at is not a timestamp, at every
\* time; a resolve without force_refresh that finds such a record does not
\* return it and resolves afresh.
C30_UnstampedRecordIsMiss ==
    /\ \A k \in DOMAIN localFiles :
          (/\ localFiles[k].kind = "json"
           /\ \/ "cached_at" \notin DOMAIN localFiles[k].obj
              \/ localFiles[k].obj["cached_at"].s # "iso8601")
          => \A fault \in {"none", "read"} : LoadResult(localFiles, k, now, fault) = None
    /\ (last.op = "resolve" /\ ~last.arg.force /\ last.fault # "stat" /\ UnstampedRecordSeen) =>
          /\ last.ret.kind = "dict"
          /\ last.arg.llm = 1
          /\ last.ret.d["resolved_at"] = isoformat(last.at)

\* A lookup found the record whose cached_at is not a timestamp and a fresh
\* resolution took its place.
C30_Witness ==
    /\ last.op = "resolve" /\ ~last.arg.force /\ last.fault = "none"
    /\ last.prior.was = "json" /\ last.prior.stamp = "invalid"
    /\ last.arg.llm = 1
    /\ localFiles[last.key] = JsonBlob(json_dumps(last.ret.d))

\* The same happened for the record without cached_at.
RecordWithoutStampReplaced ==
    /\ last.op = "resolve" /\ ~last.arg.force /\ last.fault = "none"
    /\ last.prior.was = "json" /\ last.prior.stamp = "missing"
    /\ last.arg.llm = 1
    /\ localFiles[last.key] = JsonBlob(json_dumps(last.ret.d))

FailedAnswer(a) ==
    \/ a.kind # "json"
    \/ a.missing # {}
    \/ a.confidence < 0
    \/ a.confidence > 10

\* C28: classify returns, for every LLM outcome, a classification with a
\* confidence within 0..1 and an evidence_basis among the four valid ones; when
\* the LLM was asked and its answer is a failure the result is the fallback
\* ('Unknown', confidence 0.0, 'insufficient', with the error), and an answer
\* that is sound except for an unknown evidence_basis is returned with
\* 'insufficient' in its place.
C28_ClassifyWellFormed ==
    last.op = "classify" =>
        /\ last.ret.kind = "classification"
        /\ 0 <= last.ret.confidence /\ last.ret.confidence <= 10
        /\ last.ret.evidence_basis \in {"vendor-stated", "mixed", "independent", "insufficient"}
        /\ (last.arg.llm = 1 /\ FailedAnswer(last.arg.answer)) =>
              /\ last.ret.primary_category = "Unknown"
              /\ last.ret.confidence = 0
              /\ last.ret.evidence_basis = "insufficient"
              /\ last.ret.error
        /\ (last.arg.llm = 1 /\ ~FailedAnswer(last.arg.answer)) =>
              /\ last.ret.confidence = last.arg.answer.confidence
              /\ ~last.ret.error
              /\ last.ret.evidence_basis =
                    (IF last.arg.answer.evidence_basis = "other" THEN "insufficient"
                     ELSE last.arg.answer.evidence_basis)

\* The LLM answered with a confidence of 1.1: classify returned the fallback.
C28_Witness ==
    /\ last.op = "classify" /\ last.arg.llm = 1
    /\ last.arg.answer.kind = "json" /\ last.arg.answer.confidence = 11
    /\ last.ret.confidence = 0
    /\ last.ret.error

PipelineOps == {"resolve", "resolve_and_classify", "assess_with_alternatives"}

\* C21 as stated: every cache read and write of resolve, resolve_and_classify
\* and assess_with_alternatives goes to the backend the Cache Manager selected
\* at construction: a freshly resolved record is stored there, and with the
\* manager bound to the bucket nothing is written to the local directory.
C21_PersistenceThroughManager ==
    last.op \in PipelineOps =>
        /\ last.backend = Dispatch
        /\ use_gcs => \A k \in ResolveKeys : localFiles[k] = Absent
        /\ (last.arg.llm >= 1 /\ last.arg.wfault = "none" /\ dirExists) =>
              StoreOf(Dispatch)[last.key].kind = "json"

\* With the manager bound to the bucket, resolve stored its record as a file
\* of the local directory and the bucket is empty.
C21_Witness ==
    /\ use_gcs /\ bucket = "b"
    /\ last.op = "resolve" /\ last.arg.llm = 1
    /\ localFiles[last.key].kind = "json"
    /\ gcsBlobs[last.key] = Absent

\* Whatever the manager is bound to, the pipeline never touches the bucket.
PipelineLeavesBucketEmpty == \A k \in ResolveKeys : gcsBlobs[k] = Absent

====
